---- MODULE Spec2Model ----
(***************************************************************************)
(* Template Resolution & Materialization Pipeline of project-creator.      *)
(*                                                                         *)
(* The model follows the templates' initialize methods step by step: the   *)
(* repository resolver (getTemplateRepo), the fetcher (git clone and the   *)
(* removal of .git), applyPatches, configureProject (pruning and the       *)
(* requirements rewrite), the template specific configuration steps and    *)
(* renderTemplateFiles.  Every external outcome (git clone, git init/add/  *)
(* commit, git apply, the content of the cloned repository, the order of   *)
(* a directory enumeration) is a nondeterministic choice.                  *)
(*                                                                         *)
(* Spec is the pipeline.  SpecResolver runs getTemplateRepo on every       *)
(* condition table, SpecRenderer walks renderTemplateFiles entry by entry, *)
(* SpecManifest runs configureProject of python-api on every requirements  *)
(* file and SpecEnv runs readEnvFile on every environment file.            *)
(***************************************************************************)
EXTENDS Integers, Sequences, FiniteSets, TLC

VARIABLES
    template,    \* id of the selected template
    params,      \* the collected TemplateParams
    config,      \* templatesConfig[template]: conditions and default
    status,      \* "collecting" (getParameters is running), "running" (initialize
                 \* is), "done" (initialize returned) or "failed" (one of them threw)
    pc,          \* index of the next statement of initialize
    ppc,         \* position inside applyPatches
    repo,        \* the value returned by getTemplateRepo
    tree,        \* the paths that exist in the target directory
    patchFiles,  \* the result of fs.readdir(patchesDir) in applyPatches
    patchIdx,    \* index of the loop over patchFiles
    thrown,      \* the statement whose error left initialize
    rendered,    \* the files renderTemplateFiles has read
    log,         \* every action performed so far, in order
    content,     \* the text of each file renderTemplateFiles walks over
    stack,       \* the calls of renderTemplateFiles: the entries left in each
    pass,        \* number of calls of renderTemplateFiles on the target directory
    manifest,    \* the lines of requirements.txt
    envFile,     \* the lines of the template's environment file
    envVarsFromFile, \* the EnvVarInfo records readEnvFile returns
    envVars,     \* the EnvVarInfo records getParameters returns
    dotEnv,      \* the lines of the .env file generateEnvFile writes
    cpc,         \* position of the command: inside the action handler and
                 \* createProject, or "exited"
    exitCode,    \* the code the process ends with, 0 unless process.exit sets it
    targetExists, \* fs.existsSync(targetDir)
    projectName, \* the name of the project, a sequence of characters
    context,     \* the context initialize passes to renderTemplateFiles
    compose,     \* the text of docker-compose.yml in the target directory
    selectedServices \* the names of the services the user chose to keep

\* the state of the command around getParameters and initialize
cliVars == <<cpc, exitCode, targetExists, projectName>>

\* the compose file and the selection it is pruned to
composeState == <<compose, selectedServices>>

\* the state of the environment file, of the compose file and of the file walks
envState == <<envFile, envVarsFromFile, envVars, dotEnv, composeState>>

walkVars == <<content, stack, pass, envState>>

vars == <<template, params, config, status, pc, ppc, repo, tree, patchFiles,
          patchIdx, thrown, rendered, log, walkVars, manifest, cliVars, context>>

(***************************************************************************)
(* Bounds                                                                  *)
(***************************************************************************)
\* longest condition table explored by the resolver specification
MaxConditions == 2

\* largest number of entries of a repository's .patches directory
MaxPatchDir == 3

(***************************************************************************)
(* Values                                                                  *)
(***************************************************************************)
\* a JavaScript undefined: an omitted field, an unanswered parameter
Undefined == "undefined"

\* JavaScript truthiness of the values a condition field can hold
Truthy(v) == v \notin {Undefined, "false", ""}

Templates ==
    {"python-web", "python-api", "refine-admin", "python-library",
     "docker-compose", "fastapi"}

\* the templates whose getTemplateRepo walks a condition table
ConditionalTemplates == {"python-web", "python-api"}

(***************************************************************************)
(* Repository resolver                                                     *)
(***************************************************************************)
\* the if of PythonWebTemplate.getTemplateRepo
PythonWebConditionHolds(condition, p) ==
    /\ (~Truthy(condition.web_framework_choice)
           \/ condition.web_framework_choice = p.web_framework_choice)
    /\ (~Truthy(condition.orm_framework)
           \/ condition.orm_framework = p.orm_framework)

\* the if of PythonApiTemplate.getTemplateRepo
PythonApiConditionHolds(condition, p) ==
    /\ (~Truthy(condition.web_framework)
           \/ condition.web_framework = p.web_framework_choice)
    /\ (~Truthy(condition.orm) \/ condition.orm = p.orm)
    /\ (~Truthy(condition.orm_framework)
           \/ condition.orm_framework = p.orm_framework)

ConditionHolds(t, condition, p) ==
    IF t = "python-web" THEN PythonWebConditionHolds(condition, p)
    ELSE PythonApiConditionHolds(condition, p)

\* the for loop of getTemplateRepo: index of the entry whose repo is
\* returned, 0 when the loop ends without a return
FirstHolding(t, conditions, p) ==
    LET holding == {i \in 1..Len(conditions) : ConditionHolds(t, conditions[i], p)}
    IN  IF holding = {} THEN 0
        ELSE CHOOSE i \in holding : \A j \in holding : i <= j

\* the hard-coded URL after || in the templates without a condition table
FallbackUrl(t) ==
    CASE t = "refine-admin" ->
           "https://github.com/dongjak-templates/refine-admin-template.git"
      [] t = "python-library" ->
           "https://github.com/dongjak-templates/py-library-template.git"
      [] t = "docker-compose" ->
           "https://github.com/dongjak-templates/docker-compose-template.git"
      [] OTHER ->
           "https://github.com/dongjak-templates/fastapi-template.git"

\* getTemplateRepo of each template
getTemplateRepo(t, cfg, p) ==
    IF t \in ConditionalTemplates
    THEN LET i == FirstHolding(t, cfg.conditions, p)
         IN  IF i > 0 THEN cfg.conditions[i].repo ELSE cfg.default
    ELSE IF t = "fastapi" THEN FallbackUrl(t)
    ELSE IF Truthy(cfg.default) THEN cfg.default ELSE FallbackUrl(t)

(***************************************************************************)
(* The target directory                                                    *)
(***************************************************************************)
\* a path is the sequence of its segments; the tree is the set of the files
\* that exist, a directory exists when a file lies under it
GitDir == <<".git">>

PatchesDir == <<".patches">>

PatchPath(name) == <<".patches", name>>

IsUnder(p, d) == Len(d) <= Len(p) /\ SubSeq(p, 1, Len(d)) = d

\* fs.pathExists
pathExists(tr, d) == \E p \in tr : IsUnder(p, d)

\* fs.remove: recursive, silent on a missing path
remove(tr, d) == {p \in tr : ~IsUnder(p, d)}

(***************************************************************************)
(* Content of the template repositories (external data)                    *)
(***************************************************************************)
PythonTree ==
    {<<"main.py">>, <<"requirements.txt">>, <<"pyproject.toml">>,
     <<"alembic", "env.py">>, <<"alembic.ini">>,
     <<"app", "services", "ali_sms", "client.py">>,
     <<"app", "services", "ali_oss", "client.py">>,
     <<"app", "models", "user.py">>, <<"app", "db", "session.py">>}

FullTree(t) ==
    CASE t \in {"python-web", "python-api"} -> PythonTree
      [] t = "refine-admin" -> {<<"package.json">>, <<"src", "App.tsx">>}
      [] t = "python-library" -> {<<"pyproject.toml">>, <<"README.md">>}
      [] t = "docker-compose" ->
           {<<"docker-compose.yml">>, <<".env">>, <<"README.md">>}
      [] OTHER ->
           {<<"main.py">>, <<"app", "core", "config.py">>, <<"Dockerfile">>,
            <<"docker-compose.yml">>, <<".dockerignore">>}

\* a repository without any of the optional files
BareTree(t) ==
    CASE t \in {"python-web", "python-api", "fastapi"} -> {<<"main.py">>}
      [] t = "refine-admin" -> {<<"package.json">>}
      [] OTHER -> {<<"README.md">>}

\* the templates whose applyPatches applies two patches named in the code,
\* each behind a flag of params; the others enumerate .patches
FlagPatchTemplates == {"python-web", "python-api", "refine-admin"}

\* the names a repository may carry in .patches
PatchDirNames(t) ==
    IF t = "refine-admin"
    THEN {"multiEnv.patch", "unocss.patch", "handlebars.patch", "README.md"}
    ELSE IF t \in FlagPatchTemplates
    THEN {"includeAliSms.patch", "includeAliOss.patch", "handlebars.patch",
          "README.md"}
    ELSE {"handlebars.patch", "a.patch", "b.patch", "README.md"}

\* String.endsWith('.patch') on the names of PatchDirNames
endsWithPatch(name) == name # "README.md"

\* what git clone leaves in the target directory
ClonedTrees(t) ==
    {base \cup {<<".git", "HEAD">>} \cup {PatchPath(n) : n \in names} :
        base \in {FullTree(t), BareTree(t)},
        names \in {ns \in SUBSET PatchDirNames(t) : Cardinality(ns) <= MaxPatchDir}}

\* the file a successfully applied patch adds to the tree
PatchOutput(name) == <<"patched", name>>

(***************************************************************************)
(* initialize: the statements of each template, in source order            *)
(***************************************************************************)
PythonWebInitialize ==
    <<"getTemplateRepo", "clone", "removeGit", "configureProject",
      "renderTemplateFiles", "applyPatches">>

PythonApiInitialize ==
    <<"getTemplateRepo", "clone", "removeGit", "updateProjectName",
      "configureProject", "renderTemplateFiles", "applyPatches">>

RefineAdminInitialize ==
    <<"getTemplateRepo", "clone", "removeGit", "renderTemplateFiles",
      "applyPatches">>

PythonLibraryInitialize ==
    <<"getTemplateRepo", "clone", "removeGit", "applyPatches",
      "renderTemplateFiles">>

DockerComposeInitialize ==
    <<"getTemplateRepo", "clone", "removeGit", "applyPatches",
      "processDockerComposeFile", "generateEnvFile", "renderTemplateFiles">>

FastApiInitialize ==
    <<"getTemplateRepo", "clone", "removeGit", "applyPatches",
      "configureDatabaseSettings", "configureCors", "configureDocker",
      "renderTemplateFiles">>

InitializeSteps(t) ==
    CASE t = "python-web" -> PythonWebInitialize
      [] t = "python-api" -> PythonApiInitialize
      [] t = "refine-admin" -> RefineAdminInitialize
      [] t = "python-library" -> PythonLibraryInitialize
      [] t = "docker-compose" -> DockerComposeInitialize
      [] OTHER -> FastApiInitialize

\* the statement initialize is about to execute
Cur ==
    IF status = "running" /\ pc <= Len(InitializeSteps(template))
    THEN InitializeSteps(template)[pc]
    ELSE "none"

Event(op, arg, ok) == [op |-> op, arg |-> arg, ok |-> ok]

Flag(name) == name \in params.flags

(***************************************************************************)
(* Parameters and configuration                                            *)
(***************************************************************************)
\* the results getParameters can return, per template; flags holds the
\* boolean parameters that are true
ParamsOf(t) ==
    CASE t = "python-web" ->
           {[web_framework_choice |-> w, orm |-> Undefined,
             orm_framework |-> "sqlmodel", flags |-> f] :
               w \in {"flask", "fastapi"},
               f \in SUBSET {"use_alembic", "includeAliSms", "includeAliOss"}}
      [] t = "python-api" ->
           {[web_framework_choice |-> w, orm |-> "true",
             orm_framework |-> "sqlmodel",
             flags |-> f \cup {"orm"}
                         \cup (IF w = Undefined THEN {} ELSE {"web_framework"})] :
               w \in {"flask", "fastapi", Undefined},
               f \in SUBSET {"use_alembic", "includeAliSms", "includeAliOss"}}
           \cup
           {[web_framework_choice |-> w, orm |-> "false",
             orm_framework |-> Undefined,
             flags |-> f \cup (IF w = Undefined THEN {} ELSE {"web_framework"})] :
               w \in {"flask", "fastapi", Undefined},
               f \in SUBSET {"includeAliSms", "includeAliOss"}}
      [] t = "refine-admin" ->
           {[web_framework_choice |-> Undefined, orm |-> Undefined,
             orm_framework |-> Undefined, flags |-> f] :
               f \in SUBSET {"multiEnv", "includeUnocss"}}
      [] t = "fastapi" ->
           {[web_framework_choice |-> Undefined, orm |-> Undefined,
             orm_framework |-> Undefined, flags |-> f] :
               f \in SUBSET {"useCors", "useDocker"}}
      [] OTHER ->
           {[web_framework_choice |-> Undefined, orm |-> Undefined,
             orm_framework |-> Undefined, flags |-> {}]}

\* a condition entry of templates.json; an omitted field is Undefined
Condition(wf, wfc, orm, of, r) ==
    [web_framework |-> wf, web_framework_choice |-> wfc, orm |-> orm,
     orm_framework |-> of, repo |-> r]

\* the repo of the i-th entry of a table, and of its default
RepoName(i) == IF i = 1 THEN "R1" ELSE IF i = 2 THEN "R2" ELSE "R3"

DefaultRepo == "R0"

\* the configurations the pipeline is run with: an empty or a one-entry
\* table, with or without a default
PipelineConfigs(t) ==
    {[conditions |-> c, default |-> d] :
        c \in (IF t = "python-web"
               THEN {<<>>, <<Condition(Undefined, "fastapi", Undefined, Undefined, "R1")>>}
               ELSE IF t = "python-api"
               THEN {<<>>, <<Condition("fastapi", Undefined, Undefined, Undefined, "R1")>>}
               ELSE {<<>>}),
        d \in {DefaultRepo, Undefined}}

\* the project name of the runs that do not vary it
ProjectName == <<"A", "-", "b">>

\* createProject has called initialize: the target directory exists, the
\* process has not exited and no context has been built
InInitialize ==
    /\ cpc = "initialize"
    /\ exitCode = 0
    /\ targetExists = TRUE
    /\ projectName = ProjectName
    /\ context = <<>>

(***************************************************************************)
(* Compose file                                                            *)
(***************************************************************************)
\* most services of a compose file explored
MaxServices == 2

\* the names a service of the file or of the selection can have
ServiceNames == {"web", "db", "cache"}

\* a node of the YAML text: a plain value, a value carrying the anchor &x,
\* or the alias *x
Nodes == {<<"plain", "A">>, <<"plain", "B">>, <<"anchor", "A">>, <<"alias", "x">>}

\* a top-level key of the text holding one node
TopScalar(k, n) == [key |-> k, kind |-> "scalar", node |-> n, entries |-> <<>>]

\* a top-level key of the text holding a mapping of names to nodes
TopMapping(k, es) == [key |-> k, kind |-> "mapping", node |-> <<>>, entries |-> es]

\* the nodes of a top-level key, in the order of the document
NodesOf(e) ==
    IF e.kind = "mapping" THEN [i \in DOMAIN e.entries |-> e.entries[i].node]
    ELSE <<e.node>>

\* the values of nodes in document order, anchor being the value &x holds
\* before them; an alias of an anchor not yet defined has no value
RECURSIVE resolve(_, _)
resolve(nodes, anchor) ==
    IF nodes = <<>> THEN <<>>
    ELSE LET n == Head(nodes)
         IN  <<IF n[1] = "alias" THEN anchor ELSE n[2]>>
                 \o resolve(Tail(nodes), IF n[1] = "anchor" THEN n[2] ELSE anchor)

\* the value &x holds after nodes
RECURSIVE AnchorAfter(_, _)
AnchorAfter(nodes, anchor) ==
    IF nodes = <<>> THEN anchor
    ELSE AnchorAfter(Tail(nodes),
                     IF Head(nodes)[1] = "anchor" THEN Head(nodes)[2] ELSE anchor)

\* the object of a document: every key with its value, aliases replaced by
\* the value of their anchor
RECURSIVE loadDocument(_, _)
loadDocument(text, anchor) ==
    IF text = <<>> THEN <<>>
    ELSE LET e == Head(text)
             values == resolve(NodesOf(e), anchor)
         IN  <<[key |-> e.key, kind |-> e.kind,
                value |-> IF e.kind = "mapping" THEN "" ELSE values[1],
                entries |-> [i \in DOMAIN e.entries |->
                                [name |-> e.entries[i].name, value |-> values[i]]]]>>
                 \o loadDocument(Tail(text), AnchorAfter(NodesOf(e), anchor))

\* yaml.load(composeFileContent)
yamlLoad(text) == loadDocument(text, Undefined)

\* yaml.load throws on an alias of an unidentified anchor
Loads(text) ==
    \A i \in DOMAIN text :
        /\ yamlLoad(text)[i].value # Undefined
        /\ \A j \in DOMAIN text[i].entries :
               yamlLoad(text)[i].entries[j].value # Undefined

\* yaml.dump(composeConfig, {noRefs: true, ...}): every value is written
\* out in place, without anchors or aliases
yamlDump(composeConfig) ==
    [i \in DOMAIN composeConfig |->
        IF composeConfig[i].kind = "mapping"
        THEN TopMapping(composeConfig[i].key,
                        [j \in DOMAIN composeConfig[i].entries |->
                            [name |-> composeConfig[i].entries[j].name,
                             node |-> <<"plain", composeConfig[i].entries[j].value>>]])
        ELSE TopScalar(composeConfig[i].key, <<"plain", composeConfig[i].value>>)]

\* composeConfig.services is an object
HasServices(composeConfig) ==
    \E i \in DOMAIN composeConfig :
        composeConfig[i].key = "services" /\ composeConfig[i].kind = "mapping"

\* Object.keys(composeConfig.services)
allServiceNames(composeConfig) ==
    LET i == CHOOSE i \in DOMAIN composeConfig : composeConfig[i].key = "services"
    IN  [j \in DOMAIN composeConfig[i].entries |-> composeConfig[i].entries[j].name]

\* the names the loop deletes: those selectedServices does not include
Deleted(composeConfig, selected) ==
    SelectSeq(allServiceNames(composeConfig), LAMBDA name : name \notin selected)

\* a loop that stops after its first delete
RECURSIVE deleteFirstUnselected(_, _)
deleteFirstUnselected(services, selected) ==
    IF services = <<>> THEN <<>>
    ELSE IF Head(services).name \notin selected THEN Tail(services)
    ELSE <<Head(services)>> \o deleteFirstUnselected(Tail(services), selected)

\* the services left by the loop over allServiceNames: delete removes a
\* service that selectedServices does not include
deleteUnselected(services, selected) ==
    SelectSeq(services, LAMBDA service : service.name \in selected)

\* composeConfig after the loop
pruneServices(composeConfig, selected) ==
    [i \in DOMAIN composeConfig |->
        IF composeConfig[i].key = "services"
        THEN [composeConfig[i] EXCEPT
                 !.entries = deleteUnselected(composeConfig[i].entries, selected)]
        ELSE composeConfig[i]]

\* the compose file of the template repository the pipeline is run on
ComposeFile ==
    <<TopScalar("version", <<"plain", "A">>),
      TopMapping("services", <<[name |-> "web", node |-> <<"anchor", "A">>],
                               [name |-> "db", node |-> <<"alias", "x">>]>>)>>

\* the selection the pipeline is run with
SelectedServices == {"db", "cache"}

\* no walk of renderTemplateFiles and no environment file is under way
WalkIdle ==
    /\ content = <<>>
    /\ stack = <<>>
    /\ pass = 0
    /\ envFile = <<>>
    /\ envVarsFromFile = <<>>
    /\ envVars = <<>>
    /\ dotEnv = <<>>
    /\ compose = ComposeFile
    /\ selectedServices = SelectedServices

\* the requirements.txt of the python-api repository
RequirementsTxt ==
    <<"fastapi==0.95.0", "sqlmodel==0.0.8", "alembic==1.12.0",
      "aliyun-python-sdk-core==2.13.1", "oss2==2.18.0", "requests==2.31.0">>

Init ==
    /\ template \in Templates
    /\ params \in ParamsOf(template)
    /\ config \in PipelineConfigs(template)
    /\ status = "running"
    /\ pc = 1
    /\ ppc = "enter"
    /\ repo = Undefined
    /\ tree = {}
    /\ patchFiles = <<>>
    /\ patchIdx = 1
    /\ thrown = "none"
    /\ rendered = {}
    /\ log = <<>>
    /\ WalkIdle
    /\ InInitialize
    /\ manifest = RequirementsTxt

(***************************************************************************)
(* Resolver and fetcher                                                    *)
(***************************************************************************)
\* const templateRepo = this.getTemplateRepo(params)
GetTemplateRepo ==
    /\ Cur = "getTemplateRepo"
    /\ repo' = getTemplateRepo(template, config, params)
    /\ log' = Append(log, Event("getTemplateRepo", <<repo'>>, TRUE))
    /\ pc' = pc + 1
    /\ UNCHANGED <<context, cliVars, walkVars, manifest, template, params, config, rendered, status, ppc, tree, patchFiles,
                   patchIdx, thrown>>

\* the outcomes of git clone <repo> <targetDir>
CloneOutcomes(r) == IF r = Undefined THEN {FALSE} ELSE BOOLEAN

\* the error of git clone is swallowed and initialize goes on
CloneSwallowsFailure ==
    /\ Cur = "clone"
    /\ \E ok \in CloneOutcomes(repo) :
         /\ log' = Append(log, Event("clone", <<repo>>, ok))
         /\ IF ok
            THEN \E tr \in ClonedTrees(template) : tree' = tr
            ELSE UNCHANGED tree
    /\ pc' = pc + 1
    /\ UNCHANGED <<context, cliVars, walkVars, manifest, template, params, config, rendered, status, thrown, ppc,
                   repo, patchFiles, patchIdx>>

\* try { execSync(`git clone ...`) } catch { throw new Error(...) }
Clone ==
    /\ Cur = "clone"
    /\ \E ok \in CloneOutcomes(repo) :
         /\ log' = Append(log, Event("clone", <<repo>>, ok))
         /\ IF ok
            THEN /\ \E tr \in ClonedTrees(template) : tree' = tr
                 /\ pc' = pc + 1
                 /\ UNCHANGED <<status, thrown>>
            ELSE /\ status' = "failed"
                 /\ thrown' = "clone"
                 /\ UNCHANGED <<tree, pc>>
    /\ UNCHANGED <<context, cliVars, walkVars, manifest, template, params, config, rendered, ppc, repo, patchFiles, patchIdx>>

\* await fs.remove(path.join(targetDir, '.git'))
RemoveGit ==
    /\ Cur = "removeGit"
    /\ tree' = remove(tree, GitDir)
    /\ log' = Append(log, Event("removeGit", GitDir, TRUE))
    /\ pc' = pc + 1
    /\ UNCHANGED <<context, cliVars, walkVars, manifest, template, params, config, rendered, status, ppc, repo, patchFiles,
                   patchIdx, thrown>>

(***************************************************************************)
(* applyPatches                                                            *)
(***************************************************************************)
\* leaving applyPatches: initialize goes on with its next statement
LeavePatches ==
    /\ pc' = pc + 1
    /\ ppc' = "enter"

\* if (!await fs.pathExists(patchesDir)) { console.log(...); return; }
PatchesEnter ==
    /\ Cur = "applyPatches"
    /\ ppc = "enter"
    /\ IF pathExists(tree, PatchesDir)
       THEN /\ ppc' = "checkpoint"
            /\ UNCHANGED <<pc, log>>
       ELSE /\ log' = Append(log, Event("noPatchesDir", PatchesDir, TRUE))
            /\ LeavePatches
    /\ UNCHANGED <<context, cliVars, walkVars, manifest, template, params, config, rendered, status, repo, tree, patchFiles,
                   patchIdx, thrown>>

\* the first of git init, git add, git commit that fails, or "ok"
CheckpointOutcomes == {"ok", "init", "add", "commit"}

\* the handlebars.patch block is missing: the enumeration comes first
FirstPatchStepEnumerates(t) == IF t \in FlagPatchTemplates THEN "flagged" ELSE "readdir"

\* the statement that follows the checkpoint: the first named patch, or the
\* handlebars.patch block that precedes the enumeration
FirstPatchStep(t) == IF t \in FlagPatchTemplates THEN "flagged" ELSE "handlebars"

\* a checkpoint whose failure is ignored: the patches are applied anyway
PatchesCheckpointGoesOn ==
    /\ Cur = "applyPatches"
    /\ ppc = "checkpoint"
    /\ \E o \in CheckpointOutcomes :
         /\ tree' = IF o = "init" THEN tree ELSE tree \cup {<<".git", "HEAD">>}
         /\ log' = Append(log, Event("checkpoint", GitDir, o = "ok"))
    /\ ppc' = FirstPatchStep(template)
    /\ patchIdx' = 1
    /\ UNCHANGED <<context, cliVars, walkVars, manifest, template, params, config, rendered,
                   status, repo, patchFiles, thrown, pc>>

\* try { chdir; git init; git add .; git commit } catch { console.warn; return; }
PatchesCheckpoint ==
    /\ Cur = "applyPatches"
    /\ ppc = "checkpoint"
    /\ \E o \in CheckpointOutcomes :
         /\ tree' = IF o = "init" THEN tree ELSE tree \cup {<<".git", "HEAD">>}
         /\ log' = Append(log, Event("checkpoint", GitDir, o = "ok"))
         /\ IF o = "ok"
            THEN /\ ppc' = FirstPatchStep(template)
                 /\ UNCHANGED pc
            ELSE LeavePatches
    /\ patchIdx' = 1
    /\ UNCHANGED <<context, cliVars, walkVars, manifest, template, params, config, rendered, status, repo, patchFiles, thrown>>

\* try { execSync(`git apply ${patch}`); console.log } catch { console.error }:
\* the events the attempt adds to the log
ApplyEvents(name, ok) ==
    IF ok THEN <<Event("gitApply", PatchPath(name), TRUE)>>
    ELSE <<Event("gitApply", PatchPath(name), FALSE),
           Event("console.error", PatchPath(name), TRUE)>>

\* the tree after the attempt
ApplyTree(tr, name, ok) == IF ok THEN tr \cup {PatchOutput(name)} ELSE tr

\* a failing git apply aborts initialize instead of being caught
AttemptThrows(name) ==
    \E ok \in BOOLEAN :
      /\ log' = Append(log, Event("gitApply", PatchPath(name), ok))
      /\ tree' = ApplyTree(tree, name, ok)
      /\ status' = IF ok THEN status ELSE "failed"
      /\ thrown' = IF ok THEN thrown ELSE "applyPatches"

\* one application attempt: the error of git apply is caught and reported
Attempt(name) ==
    \E ok \in BOOLEAN :
      /\ log' = log \o ApplyEvents(name, ok)
      /\ tree' = ApplyTree(tree, name, ok)
      /\ UNCHANGED <<status, thrown>>

\* the two patches of a template that names its patches, in source order
FlagPatches(t) ==
    IF t = "refine-admin"
    THEN <<[flag |-> "multiEnv", file |-> "multiEnv.patch"],
           [flag |-> "includeUnocss", file |-> "unocss.patch"]>>
    ELSE <<[flag |-> "includeAliSms", file |-> "includeAliSms.patch"],
           [flag |-> "includeAliOss", file |-> "includeAliOss.patch"]>>

\* the named patch is applied regardless of its flag
FlagGateAlways(fp) == TRUE

\* if (includeAliSms), if (includeAliOss), if (multiEnv), if (includeUnocss)
FlagGate(fp) == Flag(fp.flag)

\* if (flag) { if (await fs.pathExists(patch)) { try { git apply } catch
\* { console.error } } else { console.warn } }
ApplyFlagged ==
    /\ Cur = "applyPatches"
    /\ ppc = "flagged"
    /\ patchIdx <= Len(FlagPatches(template))
    /\ LET fp == FlagPatches(template)[patchIdx]
       IN  IF FlagGate(fp)
           THEN IF PatchPath(fp.file) \in tree
                THEN Attempt(fp.file)
                ELSE /\ log' = Append(log, Event("console.warn", PatchPath(fp.file), TRUE))
                     /\ UNCHANGED <<tree, status, thrown>>
           ELSE UNCHANGED <<log, tree, status, thrown>>
    /\ patchIdx' = patchIdx + 1
    /\ UNCHANGED <<context, cliVars, walkVars, manifest, template, params, config, rendered, pc, ppc, repo, patchFiles>>

\* if (await fs.pathExists(handlebarsPatchPath)) { try { git apply } catch
\* { console.error } }
ApplyHandlebars ==
    /\ Cur = "applyPatches"
    /\ ppc = "handlebars"
    /\ IF PatchPath("handlebars.patch") \in tree
       THEN Attempt("handlebars.patch")
       ELSE UNCHANGED <<log, tree, status, thrown>>
    /\ ppc' = "readdir"
    /\ UNCHANGED <<context, cliVars, walkVars, manifest, template, params, config, rendered, pc, repo, patchFiles,
                   patchIdx>>

\* the orders in which a directory enumeration may list a set of names
Enumerations(names) ==
    {s \in [1..Cardinality(names) -> names] :
        \A i, j \in 1..Cardinality(names) : i # j => s[i] # s[j]}

\* the names in .patches
PatchDirEntries(tr) == {p[2] : p \in {q \in tr : IsUnder(q, PatchesDir)}}

\* const patchFiles = await fs.readdir(patchesDir)
ReadPatchDir ==
    /\ Cur = "applyPatches"
    /\ ppc = "readdir"
    /\ \E order \in Enumerations(PatchDirEntries(tree)) :
         /\ patchFiles' = order
         /\ log' = Append(log, Event("readdir", PatchesDir, TRUE))
    /\ patchIdx' = 1
    /\ ppc' = "loop"
    /\ UNCHANGED <<context, cliVars, walkVars, manifest, template, params, config, rendered, status, pc, repo, tree, thrown>>

\* a loop that skips only the names that do not end with .patch
SkipsListedNonPatch(name) == ~endsWithPatch(name)

\* the conditions under which the loop body skips a name (continue)
SkipsListed(name) == name = "handlebars.patch" \/ ~endsWithPatch(name)

\* one iteration of for (const patchFile of patchFiles)
ApplyListed ==
    /\ Cur = "applyPatches"
    /\ ppc = "loop"
    /\ patchIdx <= Len(patchFiles)
    /\ LET name == patchFiles[patchIdx]
       IN  IF SkipsListed(name)
           THEN UNCHANGED <<log, tree, status, thrown>>
           ELSE Attempt(name)
    /\ patchIdx' = patchIdx + 1
    /\ UNCHANGED <<context, cliVars, walkVars, manifest, template, params, config, rendered, pc, ppc, repo, patchFiles>>

\* the patch statements are exhausted
PatchesApplied ==
    \/ ppc = "flagged" /\ patchIdx > Len(FlagPatches(template))
    \/ ppc = "loop" /\ patchIdx > Len(patchFiles)

\* await fs.remove(patchesDir); await fs.remove(path.join(targetDir, '.git'))
PatchesCleanup ==
    /\ Cur = "applyPatches"
    /\ PatchesApplied
    /\ tree' = remove(remove(tree, PatchesDir), GitDir)
    /\ log' = log \o <<Event("removePatches", PatchesDir, TRUE),
                       Event("removePatchGit", GitDir, TRUE)>>
    /\ LeavePatches
    /\ UNCHANGED <<context, cliVars, walkVars, manifest, template, params, config, rendered, status, repo, patchFiles, patchIdx,
                   thrown>>

(***************************************************************************)
(* Pruning, configuration and rendering                                    *)
(***************************************************************************)
\* one "if (await fs.pathExists(p)) await fs.remove(p)" per target, in order:
\* the targets that are removed
\* a pruner that removes every target without asking whether it exists
PrunedUnguarded(tr, targets) == targets

Pruned(tr, targets) == SelectSeq(targets, LAMBDA d : pathExists(tr, d))

PruneEvents(tr, targets) ==
    [i \in 1..Len(Pruned(tr, targets)) |-> Event("prune", Pruned(tr, targets)[i], TRUE)]

\* a removal that deletes a file but leaves a directory and its files behind
PruneTreeShallow(tr, targets) ==
    {p \in tr : \A i \in 1..Len(targets) : p # targets[i]}

PruneTree(tr, targets) ==
    {p \in tr : \A i \in 1..Len(targets) : ~IsUnder(p, targets[i])}

\* the paths configureProject removes for the disabled features, in source order
ConfigureProjectTargets(t, p) ==
    (IF t = "python-api" /\ "orm" \notin p.flags
     THEN <<<<"app", "models">>, <<"app", "db">>>> ELSE <<>>)
    \o (IF "use_alembic" \notin p.flags
        THEN <<<<"alembic">>, <<"alembic.ini">>>> ELSE <<>>)
    \o (IF "includeAliSms" \notin p.flags
        THEN <<<<"app", "services", "ali_sms">>>> ELSE <<>>)
    \o (IF "includeAliOss" \notin p.flags
        THEN <<<<"app", "services", "ali_oss">>>> ELSE <<>>)

\* updateRequirements, the last call of PythonApiTemplate.configureProject:
\* the file is rewritten when it exists; the event holds the lines read
UpdateRequirementsEvents(t, tr, lines) ==
    IF t = "python-api" /\ <<"requirements.txt">> \in tr
    THEN <<Event("updateRequirements", lines, TRUE)>>
    ELSE <<>>

\* the dependency lines a requirements.txt is made of
ManifestLines ==
    {"fastapi==0.95.0", "flask==2.0.0", "flask-sqlalchemy==3.0.0",
     "fastapi-sqlalchemy==0.2.1", "sqlalchemy==2.0.0", "sqlmodel==0.0.8", "alembic==1.12.0",
     "aliyun-python-sdk-core==2.13.1", "oss2==2.18.0", "requests==2.31.0"}

\* the names updateRequirements looks for that occur in a line
LineIncludes(line) ==
    CASE line \in {"fastapi==0.95.0", "fastapi==0.103.1"} -> {"fastapi"}
      [] line \in {"flask==2.0.0", "flask==2.3.3"} -> {"flask"}
      [] line = "flask-sqlalchemy==3.0.0" -> {"flask", "sqlalchemy"}
      [] line = "fastapi-sqlalchemy==0.2.1" -> {"fastapi", "sqlalchemy"}
      [] line = "sqlalchemy==2.0.0" -> {"sqlalchemy"}
      [] line = "sqlmodel==0.0.8" -> {"sqlmodel"}
      [] line = "alembic==1.12.0" -> {"alembic"}
      [] line = "aliyun-python-sdk-core==2.13.1" -> {"aliyun-python-sdk-core"}
      [] line = "oss2==2.18.0" -> {"oss2"}
      [] OTHER -> {}

\* a comparison of the whole line in place of String.includes
includesWholeLine(line, name) == line = name

\* line.includes(name)
includes(line, name) == name \in LineIncludes(line)

\* an unpinned specifier in place of the pinned one
FlaskPinsUnpinned == <<"flask">>

\* newLines.push('flask==2.3.3')
FlaskPins == <<"flask==2.3.3">>

\* newLines.push('fastapi==0.103.1'); newLines.push('uvicorn==0.23.2')
FastApiPins == <<"fastapi==0.103.1", "uvicorn==0.23.2">>

\* the body of the loop of updateRequirements: what a line adds to newLines
RequirementLines(line, p) ==
    IF "orm" \notin p.flags
         /\ (includes(line, "sqlmodel") \/ includes(line, "sqlalchemy"))
    THEN <<>>
    ELSE IF "use_alembic" \notin p.flags /\ includes(line, "alembic")
    THEN <<>>
    ELSE IF "web_framework" \in p.flags /\ p.web_framework_choice = "flask"
              /\ includes(line, "fastapi")
    THEN FlaskPins
    ELSE IF "web_framework" \in p.flags /\ p.web_framework_choice = "fastapi"
              /\ includes(line, "flask")
    THEN FastApiPins
    ELSE IF "includeAliSms" \notin p.flags
              /\ includes(line, "aliyun-python-sdk-core")
    THEN <<>>
    ELSE IF "includeAliOss" \notin p.flags /\ includes(line, "oss2")
    THEN <<>>
    ELSE <<line>>

\* a loop that puts what each line adds in front of newLines
RECURSIVE updateRequirementsPrepends(_, _)
updateRequirementsPrepends(lines, p) ==
    IF lines = <<>>
    THEN <<>>
    ELSE updateRequirementsPrepends(Tail(lines), p) \o RequirementLines(Head(lines), p)

\* for (const line of lines) { ... }: newLines
RECURSIVE updateRequirements(_, _)
updateRequirements(lines, p) ==
    IF lines = <<>>
    THEN <<>>
    ELSE RequirementLines(Head(lines), p) \o updateRequirements(Tail(lines), p)

\* await this.configureProject(targetDir, projectName, params)
ConfigureProject ==
    /\ Cur = "configureProject"
    /\ LET targets == ConfigureProjectTargets(template, params)
       IN  /\ tree' = PruneTree(tree, targets)
           /\ log' = log \o PruneEvents(tree, targets)
                         \o UpdateRequirementsEvents(template, tree', manifest)
    /\ manifest' = IF UpdateRequirementsEvents(template, tree', manifest) # <<>>
                   THEN updateRequirements(manifest, params)
                   ELSE manifest
    /\ pc' = pc + 1
    /\ UNCHANGED <<context, cliVars, walkVars, template, params, config, rendered, status, ppc, repo,
                   patchFiles, patchIdx, thrown>>

\* await this.updateProjectName(targetDir, projectName)
UpdateProjectName ==
    /\ Cur = "updateProjectName"
    /\ log' = Append(log, Event("updateProjectName", <<"pyproject.toml">>, TRUE))
    /\ pc' = pc + 1
    /\ UNCHANGED <<context, cliVars, walkVars, manifest, template, params, config, rendered, status, ppc, repo, tree,
                   patchFiles, patchIdx, thrown>>

\* the keys of the object getParameters returns
ParamKeys(t) ==
    CASE t = "python-web" ->
           {"orm_framework", "web_framework_choice", "use_alembic",
            "includeAliSms", "includeAliOss"}
      [] t = "python-api" ->
           {"orm", "orm_framework", "web_framework", "web_framework_choice",
            "use_alembic", "includeAliSms", "includeAliOss"}
      [] t = "refine-admin" -> {"multiEnv", "includeUnocss"}
      [] t = "python-library" -> {"projectDescription"}
      [] t = "docker-compose" -> {"selectedServices", "envVars"}
      [] OTHER -> {"databaseType", "useCors", "useDocker"}

\* the value of a parameter: a choice, the truth of a boolean, or an answer
\* the pipeline does not look into
ParamValue(k) ==
    CASE k = "web_framework_choice" -> params.web_framework_choice
      [] k = "orm_framework" -> params.orm_framework
      [] k \in {"projectDescription", "databaseType", "selectedServices",
                "envVars"} -> "answer"
      [] OTHER -> Flag(k)

\* the parameters the context takes over: all of them by ...params in the
\* templates that name their patches, projectDescription in python-library,
\* databaseType, useCors and useDocker in fastapi, none in docker-compose
PassedParams(t) == IF t = "docker-compose" THEN {} ELSE ParamKeys(t)

\* the fields the template derives from projectName and the clock
DerivedFields(t) ==
    IF t \in FlagPatchTemplates THEN {} ELSE {"projectNameSnakeCase", "currentYear"}

\* the booleans the template derives from its parameters
DerivedBooleans(t) ==
    CASE t \in {"python-web", "python-api"} ->
           {"hasOrm", "hasWebFramework", "isFlask", "isFastApi", "hasSqlModel",
            "hasAlembic", "hasAliSms", "hasAliOss"}
      [] t = "refine-admin" -> {"hasMultiEnv", "hasUnocss"}
      [] OTHER -> {}

\* the truth of a derived boolean; python-web has hasOrm and
\* hasWebFramework true, python-api derives them from orm and web_framework
DerivedBoolean(t, k) ==
    LET orm == t = "python-web" \/ Flag("orm")
        web_framework == t = "python-web" \/ Flag("web_framework")
    IN  CASE k = "hasOrm" -> orm
          [] k = "hasWebFramework" -> web_framework
          [] k = "isFlask" -> web_framework /\ params.web_framework_choice = "flask"
          [] k = "isFastApi" -> web_framework /\ params.web_framework_choice = "fastapi"
          [] k = "hasSqlModel" -> orm /\ params.orm_framework = "sqlmodel"
          [] k = "hasAlembic" -> orm /\ Flag("use_alembic")
          [] k = "hasAliSms" -> Flag("includeAliSms")
          [] k = "hasAliOss" -> Flag("includeAliOss")
          [] k = "hasMultiEnv" -> Flag("multiEnv")
          [] OTHER -> Flag("includeUnocss")

\* String.replace('-', '_'): the first "-" only
RECURSIVE replaceFirstDash(_)
replaceFirstDash(str) ==
    IF str = <<>> THEN <<>>
    ELSE IF Head(str) = "-" THEN <<"_">> \o Tail(str)
    ELSE <<Head(str)>> \o replaceFirstDash(Tail(str))

\* String.replace(/-/g, '_')
replaceDashes(str) == [i \in DOMAIN str |-> IF str[i] = "-" THEN "_" ELSE str[i]]

\* String.toLowerCase, A and B being the upper-case letters of a name
toLowerCase(str) ==
    [i \in DOMAIN str |->
        IF str[i] = "A" THEN "a" ELSE IF str[i] = "B" THEN "b" ELSE str[i]]

\* new Date().getFullYear()
currentYear == 2026

\* the keys of the object literal passed to renderTemplateFiles
ContextKeys(t) ==
    {"projectName"} \cup PassedParams(t) \cup DerivedBooleans(t) \cup DerivedFields(t)

\* the object literal passed to renderTemplateFiles
RenderContext(t, name) ==
    [k \in ContextKeys(t) |->
        CASE k = "projectName" -> name
          [] k = "projectNameSnakeCase" -> toLowerCase(replaceDashes(name))
          [] k = "currentYear" -> currentYear
          [] k \in DerivedBooleans(t) -> DerivedBoolean(t, k)
          [] OTHER -> ParamValue(k)]

\* what a call of renderTemplateFiles on the target directory ends in: every
\* file rendered; a file whose read, compile, render or write failed inside
\* the try, which is warned about; or an error of the fs.stat of an entry
\* or of a fs.readdir, which stand outside the try and leave the call
RenderOutcomes == {"rendered", "warned", "stat", "readdir"}

\* await super.renderTemplateFiles(targetDir, context): every file of the
\* tree is visited, unless the walk is left by an error
RenderTemplateFiles ==
    /\ Cur = "renderTemplateFiles"
    /\ \E outcome \in RenderOutcomes :
         /\ outcome \in {"warned", "stat"} => tree # {}
         /\ context' = RenderContext(template, projectName)
         /\ IF outcome \in {"stat", "readdir"}
            THEN /\ status' = "failed"
                 /\ thrown' = "renderTemplateFiles"
                 /\ log' = Append(log, Event("renderTemplateFiles", <<outcome>>, FALSE))
                 /\ UNCHANGED <<rendered, pc>>
            ELSE /\ rendered' = tree
                 /\ log' = (IF outcome = "warned"
                            THEN Append(log, Event("renderWarning", <<>>, TRUE))
                            ELSE log)
                               \o <<Event("renderTemplateFiles", <<>>, TRUE)>>
                 /\ pc' = pc + 1
                 /\ UNCHANGED <<status, thrown>>
    /\ UNCHANGED <<cliVars, walkVars, manifest, template, params, config, ppc, repo,
                   tree, patchFiles, patchIdx>>

\* processDockerComposeFile: a missing file and a file without a services
\* object are warned about and left alone; otherwise the services that
\* selectedServices does not include are deleted and the file is written
\* again; an error of the read, of yaml.load or of the write is logged and
\* rethrown
ProcessDockerComposeFile ==
    /\ Cur = "processDockerComposeFile"
    /\ IF <<"docker-compose.yml">> \notin tree
       THEN /\ log' = Append(log, Event("composeFileMissing", <<"docker-compose.yml">>, TRUE))
            /\ pc' = pc + 1
            /\ UNCHANGED <<status, thrown, compose>>
       ELSE \E ok \in BOOLEAN :
              /\ ~Loads(compose) => ~ok
              /\ IF ~ok
                 THEN /\ log' = Append(log, Event("processDockerComposeFile",
                                                  <<"docker-compose.yml">>, FALSE))
                      /\ status' = "failed"
                      /\ thrown' = "processDockerComposeFile"
                      /\ UNCHANGED <<pc, compose>>
                 ELSE LET composeConfig == yamlLoad(compose)
                      IN  IF ~HasServices(composeConfig)
                          THEN /\ log' = Append(log, Event("composeNoServices",
                                                           <<"docker-compose.yml">>, TRUE))
                               /\ pc' = pc + 1
                               /\ UNCHANGED <<status, thrown, compose>>
                          ELSE /\ compose' = yamlDump(pruneServices(composeConfig,
                                                                    selectedServices))
                               /\ log' = log
                                    \o [i \in DOMAIN Deleted(composeConfig, selectedServices) |->
                                           Event("deleteService",
                                                 <<Deleted(composeConfig, selectedServices)[i]>>,
                                                 TRUE)]
                                    \o <<Event("processDockerComposeFile",
                                               <<"docker-compose.yml">>, TRUE)>>
                               /\ pc' = pc + 1
                               /\ UNCHANGED <<status, thrown>>
    /\ UNCHANGED <<context, cliVars, content, stack, pass, envFile, envVarsFromFile,
                   envVars, dotEnv, selectedServices, manifest, template, params,
                   config, rendered, ppc, repo, tree, patchFiles, patchIdx>>

\* the two comment lines and the blank line every generated .env begins with
EnvHeader == <<<<"#", " ", "h">>, <<"#", " ", "g">>, <<>>>>

\* what the loop of generateEnvFile adds for one variable: the comment
\* line when there is a comment, then NAME=value; nothing when the value
\* is undefined
EnvEntry(info) ==
    IF info.value # Undefined
    THEN (IF info.comment # <<>> THEN <<<<"#", " ">> \o info.comment>> ELSE <<>>)
             \o <<info.name \o <<"=">> \o info.value>>
    ELSE <<>>

RECURSIVE EnvEntries(_)
EnvEntries(infos) ==
    IF infos = <<>> THEN <<>> ELSE EnvEntry(Head(infos)) \o EnvEntries(Tail(infos))

\* the lines of the content generateEnvFile writes, as split('\n') gives
\* them: every line written ends with a newline, so an empty line is last
generateEnvFile(infos) == EnvHeader \o EnvEntries(infos) \o <<<<>>>>

\* await this.generateEnvFile(targetDir, envVars): .env is written
GenerateEnvFile ==
    /\ Cur = "generateEnvFile"
    /\ tree' = tree \cup {<<".env">>}
    /\ dotEnv' = generateEnvFile(envVars)
    /\ log' = Append(log, Event("generateEnvFile", <<".env">>, TRUE))
    /\ pc' = pc + 1
    /\ UNCHANGED <<context, cliVars, content, stack, pass, envFile, envVarsFromFile, envVars,
                   composeState, manifest,
                   template, params, config, rendered, status, ppc, repo,
                   patchFiles, patchIdx, thrown>>

\* configureDatabaseSettings: rewrites app/core/config.py when it exists
ConfigureDatabaseSettings ==
    /\ Cur = "configureDatabaseSettings"
    /\ log' = Append(log, Event("configureDatabaseSettings",
                                <<"app", "core", "config.py">>,
                                <<"app", "core", "config.py">> \in tree))
    /\ pc' = pc + 1
    /\ UNCHANGED <<context, cliVars, walkVars, manifest, template, params, config, rendered, status, ppc, repo, tree,
                   patchFiles, patchIdx, thrown>>

\* if (useCors) enableCors else disableCors: rewrites main.py when it exists
ConfigureCors ==
    /\ Cur = "configureCors"
    /\ log' = Append(log, Event(IF Flag("useCors") THEN "enableCors" ELSE "disableCors",
                                <<"main.py">>, <<"main.py">> \in tree))
    /\ pc' = pc + 1
    /\ UNCHANGED <<context, cliVars, walkVars, manifest, template, params, config, rendered, status, ppc, repo, tree,
                   patchFiles, patchIdx, thrown>>

\* the files removeDockerFiles removes, in source order
DockerFiles == <<<<"Dockerfile">>, <<"docker-compose.yml">>, <<".dockerignore">>>>

\* if (useDocker) configureDocker else removeDockerFiles
ConfigureDocker ==
    /\ Cur = "configureDocker"
    /\ IF Flag("useDocker")
       THEN /\ log' = Append(log, Event("configureDocker", <<"docker-compose.yml">>,
                                        <<"docker-compose.yml">> \in tree))
            /\ UNCHANGED tree
       ELSE /\ tree' = PruneTree(tree, DockerFiles)
            /\ log' = log \o PruneEvents(tree, DockerFiles)
    /\ pc' = pc + 1
    /\ UNCHANGED <<context, cliVars, walkVars, manifest, template, params, config, rendered, status, ppc, repo,
                   patchFiles, patchIdx, thrown>>

\* console.log('项目初始化完成'): initialize returns
Return ==
    /\ status = "running"
    /\ pc > Len(InitializeSteps(template))
    /\ status' = "done"
    /\ UNCHANGED <<context, cliVars, walkVars, manifest, template, params, config, rendered, pc, ppc, repo, tree,
                   patchFiles, patchIdx, thrown, log>>

Next ==
    \/ GetTemplateRepo
    \/ Clone
    \/ RemoveGit
    \/ PatchesEnter
    \/ PatchesCheckpoint
    \/ ApplyFlagged
    \/ ApplyHandlebars
    \/ ReadPatchDir
    \/ ApplyListed
    \/ PatchesCleanup
    \/ ConfigureProject
    \/ UpdateProjectName
    \/ RenderTemplateFiles
    \/ ProcessDockerComposeFile
    \/ GenerateEnvFile
    \/ ConfigureDatabaseSettings
    \/ ConfigureCors
    \/ ConfigureDocker
    \/ Return

Spec == Init /\ [][Next]_vars

(***************************************************************************)
(* The resolver on its own: every condition table up to MaxConditions      *)
(***************************************************************************)
\* the values an entry of a template's table can give each field
ConditionsOf(t, r) ==
    IF t = "python-web"
    THEN {Condition(Undefined, wfc, Undefined, of, r) :
            wfc \in {Undefined, "flask", "fastapi"},
            of \in {Undefined, "sqlmodel"}}
    ELSE {Condition(wf, Undefined, orm, of, r) :
            wf \in {Undefined, "flask", "fastapi"},
            orm \in {Undefined, "true", "false"},
            of \in {Undefined, "sqlmodel"}}

\* the tables of n entries; the i-th entry's repo is RepoName(i)
TablesOfLen(t, n) ==
    {s \in [1..n -> UNION {ConditionsOf(t, RepoName(i)) : i \in 1..n}] :
        \A i \in 1..n : s[i].repo = RepoName(i)}

ResolverConfigs(t) ==
    {[conditions |-> c, default |-> DefaultRepo] :
        c \in UNION {TablesOfLen(t, n) : n \in 0..MaxConditions}}

\* the parameters the resolver reads
ResolverParams(t) == {p \in ParamsOf(t) : p.flags \subseteq {"orm", "web_framework"}}

InitResolver ==
    /\ template \in ConditionalTemplates
    /\ params \in ResolverParams(template)
    /\ config \in ResolverConfigs(template)
    /\ status = "running"
    /\ pc = 1
    /\ ppc = "enter"
    /\ repo = Undefined
    /\ tree = {}
    /\ patchFiles = <<>>
    /\ patchIdx = 1
    /\ thrown = "none"
    /\ rendered = {}
    /\ log = <<>>
    /\ WalkIdle
    /\ InInitialize
    /\ manifest = <<>>

SpecResolver == InitResolver /\ [][GetTemplateRepo]_vars

(***************************************************************************)
(* Properties                                                              *)
(***************************************************************************)
\* getTemplateRepo has returned
Resolved == pc > 1

\* an entry matches params as the specification defines it: every field the
\* entry carries equals the corresponding parameter, whatever its value
EntryMatches(c, p) ==
    /\ (c.web_framework # Undefined => c.web_framework = p.web_framework_choice)
    /\ (c.web_framework_choice # Undefined
           => c.web_framework_choice = p.web_framework_choice)
    /\ (c.orm # Undefined => c.orm = p.orm)
    /\ (c.orm_framework # Undefined => c.orm_framework = p.orm_framework)

MatchingEntries == {i \in 1..Len(config.conditions) : EntryMatches(config.conditions[i], params)}

FirstMatching == CHOOSE i \in MatchingEntries : \A j \in MatchingEntries : i <= j

\* C1: when one or more entries match, the resolver returns the repo of the
\* matching entry with the smallest index
C1_FirstMatchWins ==
    (Resolved /\ MatchingEntries # {})
        => repo = config.conditions[FirstMatching].repo

\* C2: the default is returned if and only if no entry matches, a field
\* being defined whenever the entry carries it (boolean false included)
C2_DefaultIffNoMatch ==
    Resolved => (repo = config.default <=> MatchingEntries = {})

(***************************************************************************)
(* The log, read as the six stages of the specification                    *)
(***************************************************************************)
\* 1 Resolver, 2 Fetcher, 3 Patch Applier, 4 Pruner, 5 Manifest Editor,
\* 6 Renderer; 0 for a statement that belongs to none of them
Stage(op) ==
    CASE op = "getTemplateRepo" -> 1
      [] op \in {"clone", "removeGit"} -> 2
      [] op \in {"checkpoint", "gitApply", "console.error", "console.warn",
                 "readdir", "removePatches", "removePatchGit"} -> 3
      [] op = "prune" -> 4
      [] op = "updateRequirements" -> 5
      [] op = "renderTemplateFiles" -> 6
      [] OTHER -> 0

Has(op) == \E i \in DOMAIN log : log[i].op = op

\* the application of patch name has been attempted
Attempted(name) ==
    \E i \in DOMAIN log : log[i].op = "gitApply" /\ log[i].arg = PatchPath(name)

\* a skip notice has been emitted for patch name
Noticed(name) ==
    \E i \in DOMAIN log : log[i].op = "console.warn" /\ log[i].arg = PatchPath(name)

\* applyPatches is running on an existing .patches directory
InPatches == Cur = "applyPatches" /\ ppc # "enter"

\* index of applyPatches in initialize
PatchesAt == CHOOSE i \in DOMAIN InitializeSteps(template) :
                 InitializeSteps(template)[i] = "applyPatches"

\* the configuration has no default and no entry matches params
NoDefaultNoMatch ==
    /\ template # "fastapi"
    /\ config.default = Undefined
    /\ MatchingEntries = {}

\* C3: without a default and without a matching entry the resolver raises a
\* fatal error: it returns nothing and the fetcher is never started
C3_NoDefaultIsFatal ==
    NoDefaultNoMatch => ~Has("getTemplateRepo") /\ ~Has("clone")

\* C4: the actions of a run follow the stage order Resolver, Fetcher, Patch
\* Applier, Pruner, Manifest Editor, Renderer
C4_StageOrder ==
    \A i, j \in DOMAIN log :
        (i < j /\ Stage(log[i].op) # 0 /\ Stage(log[j].op) # 0)
            => Stage(log[i].op) <= Stage(log[j].op)

\* C5: when initialize returns normally the target directory holds neither
\* .patches nor .git
C5_NoPatchesNoGitAtReturn ==
    status = "done" => ~pathExists(tree, PatchesDir) /\ ~pathExists(tree, GitDir)

Handlebars == "handlebars.patch"

IsApply(e) == e.op = "gitApply"

\* the names of the patches other than handlebars.patch whose application
\* has been attempted, in the order of the attempts
OtherAttempts ==
    LET es == SelectSeq(log, LAMBDA e : IsApply(e) /\ e.arg # PatchPath(Handlebars))
    IN  [i \in 1..Len(es) |-> es[i].arg[2]]

\* every attempt on another patch comes after an attempt on handlebars.patch
HandlebarsFirst ==
    \A i \in DOMAIN log :
        (IsApply(log[i]) /\ log[i].arg # PatchPath(Handlebars))
            => \E j \in 1..(i - 1) :
                   IsApply(log[j]) /\ log[j].arg = PatchPath(Handlebars)

\* the entries of the enumeration the loop has gone through
Enumerated == SubSeq(patchFiles, 1, IF ppc = "loop" THEN patchIdx - 1 ELSE 0)

\* the other patches are attempted in the order of the enumeration
InEnumerationOrder ==
    OtherAttempts = SelectSeq(Enumerated, LAMBDA n : ~SkipsListed(n))

\* position of a patch among the patches the code names
FlagIndex(name) ==
    CHOOSE k \in DOMAIN FlagPatches(template) : FlagPatches(template)[k].file = name

\* the named patches are attempted in the order of the source
InSourceOrder ==
    /\ \A i \in DOMAIN OtherAttempts :
          \E k \in DOMAIN FlagPatches(template) :
              FlagPatches(template)[k].file = OtherAttempts[i]
    /\ \A i, j \in DOMAIN OtherAttempts :
          i < j => FlagIndex(OtherAttempts[i]) < FlagIndex(OtherAttempts[j])

\* C6 as stated: with handlebars.patch present its attempt precedes every
\* other attempt, and the other patches follow one directory enumeration
C6_HandlebarsFirstThenEnumeration ==
    InPatches =>
        /\ (PatchPath(Handlebars) \in tree => HandlebarsFirst)
        /\ InEnumerationOrder

\* C6 amended: the templates that enumerate .patches attempt handlebars.patch
\* before every other patch and the others in the order of the single
\* readdir; the templates that name their patches never attempt
\* handlebars.patch and attempt their patches in the order of the source
C6_OrderPerTemplateFamily ==
    InPatches =>
        IF template \in FlagPatchTemplates
        THEN ~Attempted(Handlebars) /\ InSourceOrder
        ELSE /\ (PatchPath(Handlebars) \in tree /\ ppc \in {"readdir", "loop"}
                    => Attempted(Handlebars))
             /\ (PatchPath(Handlebars) \in tree => HandlebarsFirst)
             /\ InEnumerationOrder

\* C6 witness: handlebars.patch and two other patches have been attempted
C6_Witness ==
    /\ InPatches
    /\ template \notin FlagPatchTemplates
    /\ Attempted(Handlebars)
    /\ Len(OtherAttempts) = 2

\* the flag of params a patch file is named after
FlagOf(name) ==
    CASE name = "includeAliSms.patch" -> "includeAliSms"
      [] name = "includeAliOss.patch" -> "includeAliOss"
      [] name = "multiEnv.patch" -> "multiEnv"
      [] name = "unocss.patch" -> "includeUnocss"
      [] name = "a.patch" -> "a"
      [] name = "b.patch" -> "b"
      [] OTHER -> "none"

\* the patches named in the code of the template
NamedPatches ==
    IF template \in FlagPatchTemplates
    THEN {FlagPatches(template)[k].file : k \in DOMAIN FlagPatches(template)}
    ELSE {}

\* the patches a gate applies to: the *.patch files of .patches other than
\* handlebars.patch, and the patches the code names
GatedPatches ==
    {n \in PatchDirEntries(tree) : endsWithPatch(n) /\ n # Handlebars}
        \cup NamedPatches

\* applyPatches has gone through its patches and is about to clean up
BeforeCleanup == Cur = "applyPatches" /\ PatchesApplied

\* C7 as stated: a patch is attempted iff its flag is true and its file
\* exists, and a skip notice is emitted for every patch that is not applied
C7_GatedByFlag ==
    BeforeCleanup =>
        \A n \in GatedPatches :
            LET due == Flag(FlagOf(n)) /\ PatchPath(n) \in tree
            IN  /\ Attempted(n) <=> due
                /\ ~due => Noticed(n)

\* C7 amended: a template that names its patches attempts each of them iff
\* its flag is true and its file exists, emits a skip notice only for a
\* true flag with an absent file, and never applies another file; a
\* template that enumerates .patches attempts every *.patch file other than
\* handlebars.patch unconditionally, without any skip notice
C7_GatePerTemplateFamily ==
    BeforeCleanup =>
        IF template \in FlagPatchTemplates
        THEN /\ \A n \in NamedPatches :
                   /\ Attempted(n) <=> (Flag(FlagOf(n)) /\ PatchPath(n) \in tree)
                   /\ Noticed(n) <=> (Flag(FlagOf(n)) /\ PatchPath(n) \notin tree)
             /\ \A n \in PatchDirEntries(tree) \ NamedPatches :
                   ~Attempted(n) /\ ~Noticed(n)
        ELSE \A n \in PatchDirEntries(tree) :
                   /\ Attempted(n) <=> endsWithPatch(n)
                   /\ ~Noticed(n)

\* C7 witness: a named patch was attempted behind its true flag while the
\* other one, present too, was left out behind its false flag
C7_Witness ==
    /\ BeforeCleanup
    /\ template \in FlagPatchTemplates
    /\ \E n, m \in NamedPatches :
          /\ Flag(FlagOf(n)) /\ Attempted(n)
          /\ ~Flag(FlagOf(m)) /\ PatchPath(m) \in tree /\ ~Attempted(m)

\* the attempt logged at position i failed
FailedAt(i) == IsApply(log[i]) /\ ~log[i].ok

\* the patches applyPatches attempts when no failure interrupts it
DueAttempts ==
    IF template \in FlagPatchTemplates
    THEN {n \in NamedPatches : Flag(FlagOf(n)) /\ PatchPath(n) \in tree}
    ELSE {n \in PatchDirEntries(tree) : endsWithPatch(n)}

\* C8: a failed patch application is reported, no error leaves applyPatches,
\* every remaining patch is still attempted, the cleanup still runs and
\* initialize goes on to its following stages
C8_PatchFailureIsRecoverable ==
    \A i \in DOMAIN log :
        FailedAt(i) =>
            /\ i < Len(log)
            /\ log[i + 1] = Event("console.error", log[i].arg, TRUE)
            /\ thrown # "applyPatches"
            /\ (status = "failed" => pc > PatchesAt)
            /\ (status = "running" => ENABLED Next)
            /\ (BeforeCleanup => \A n \in DueAttempts : Attempted(n))
            /\ (pc > PatchesAt =>
                   /\ \E j \in (i + 1)..Len(log) : log[j].op = "removePatches"
                   /\ \E j \in (i + 1)..Len(log) : log[j].op = "removePatchGit"
                   /\ ~pathExists(tree, PatchesDir)
                   /\ ~pathExists(tree, GitDir))

\* C8 witness: a patch failed, a later one was still applied, the cleanup
\* ran, the files were rendered afterwards and initialize returned
C8_Witness ==
    /\ status = "done"
    /\ \E i, j, k, l \in DOMAIN log :
          /\ i < j /\ j < k /\ k < l
          /\ FailedAt(i)
          /\ IsApply(log[j]) /\ log[j].ok
          /\ log[k].op = "removePatches"
          /\ log[l].op = "renderTemplateFiles"

\* the clone logged at position i failed
CloneFailedAt(i) == log[i].op = "clone" /\ ~log[i].ok

\* C9: when git clone fails initialize throws, no later stage performs any
\* action and the target directory stays as the fetcher left it
C9_FetchFailureIsFatal ==
    \A i \in DOMAIN log :
        CloneFailedAt(i) =>
            /\ status = "failed"
            /\ thrown = "clone"
            /\ i = Len(log)
            /\ tree = {}
            /\ rendered = {}
            /\ ~ENABLED Next

\* C9 witness: a clone of a resolved repository has failed
C9_Witness ==
    \E i \in DOMAIN log : CloneFailedAt(i) /\ log[i].arg # <<Undefined>>

\* C10: no file under a pruned subtree is rendered, every prune action
\* precedes the first render action and follows the last patch action
C10_PruneBetweenPatchAndRender ==
    \A i, j \in DOMAIN log :
        /\ (log[i].op = "prune" /\ log[j].op = "renderTemplateFiles") => i < j
        /\ (Stage(log[i].op) = 3 /\ log[j].op = "prune") => i < j
        /\ log[i].op = "prune" => \A f \in rendered : ~IsUnder(f, log[i].arg)

(***************************************************************************)
(* Tree pruner                                                             *)
(***************************************************************************)
\* the parameters that switch a prunable feature on or off
PrunableFeatures == {"orm", "use_alembic", "includeAliSms", "includeAliOss"}

\* the fixed relative paths of a feature
FeaturePaths(f) ==
    CASE f = "orm" -> {<<"app", "models">>, <<"app", "db">>}
      [] f = "use_alembic" -> {<<"alembic">>, <<"alembic.ini">>}
      [] f = "includeAliSms" -> {<<"app", "services", "ali_sms">>}
      [] OTHER -> {<<"app", "services", "ali_oss">>}

\* the parameter disables its feature; orm is a parameter of python-api
\* only, and a use_alembic that was never asked is read like false
FeatureDisabled(f) == IF f = "orm" THEN params.orm = "false" ELSE ~Flag(f)

FeatureEnabled(f) == Flag(f)

\* index of configureProject in initialize
ConfigureAt == CHOOSE i \in DOMAIN InitializeSteps(template) :
                   InitializeSteps(template)[i] = "configureProject"

\* C11: after configureProject no path of a disabled feature exists in the
\* target directory and every file of an enabled feature is still there
C11_PrunerPostcondition ==
    [][ConfigureProject =>
          \A f \in PrunableFeatures :
              /\ FeatureDisabled(f) =>
                     \A d \in FeaturePaths(f) : ~pathExists(tree', d)
              /\ FeatureEnabled(f) =>
                     \A p \in tree :
                         (\E d \in FeaturePaths(f) : IsUnder(p, d)) => p \in tree'
      ]_vars

\* C11 witness: configureProject of python-api has removed the existing
\* directory of a disabled feature and kept the one of an enabled feature
C11_Witness ==
    /\ template = "python-api"
    /\ pc > ConfigureAt
    /\ ~Flag("includeAliOss")
    /\ \E i \in DOMAIN log :
          log[i] = Event("prune", <<"app", "services", "ali_oss">>, TRUE)
    /\ Flag("includeAliSms")
    /\ pathExists(tree, <<"app", "services", "ali_sms">>)

\* the targets of the pruner of the run: configureProject in python-web and
\* python-api, removeDockerFiles in fastapi when useDocker is false
PrunerTargets ==
    IF template = "fastapi"
    THEN IF Flag("useDocker") THEN <<>> ELSE DockerFiles
    ELSE ConfigureProjectTargets(template, params)

\* the pruner of the run has completed
PrunerRan ==
    \E i \in DOMAIN InitializeSteps(template) :
        /\ InitializeSteps(template)[i] \in {"configureProject", "configureDocker"}
        /\ pc > i

\* C12: pruning is idempotent: run again with the same params on its own
\* output the pruner finds no path to remove, removes nothing and leaves
\* the tree as it is
C12_PruningIdempotent ==
    PrunerRan =>
        /\ PruneTree(tree, PrunerTargets) = tree
        /\ PruneEvents(tree, PrunerTargets) = <<>>

\* C12 witness: the pruner has removed two paths or more, so that a second
\* run meets targets that are already absent
C12_Witness ==
    /\ PrunerRan
    /\ Cardinality({i \in DOMAIN log : log[i].op = "prune"}) >= 2

(***************************************************************************)
(* Variable renderer: BaseTemplate.renderTemplateFiles, entry by entry     *)
(***************************************************************************)
\* largest number of files in the directory that is rendered
MaxRenderFiles == 2

\* number of times renderTemplateFiles is run on the directory
MaxPasses == 2

\* largest number of file system errors during the runs
MaxFaults == 1

\* the files the rendered directory may hold
RenderPaths == {<<"README.md">>, <<"src", "main.py">>, <<"src", "core", "config.py">>}

\* a file's text is a sequence of pieces: literal text, a mustache of a
\* variable the context has (name) or lacks (none), an escaped mustache, a
\* block that is never closed
Contents ==
    {<<"a&b">>, <<"{{none}}", "a&b", "{{name}}">>, <<"\\{{name}}">>, <<"{{#if">>}

\* the context handed to renderTemplateFiles
Context == [name |-> "val"]

\* the variable a mustache names
VarOf(piece) == IF piece = "{{name}}" THEN "name" ELSE "none"

\* Handlebars.compile(content) followed by template(context) throws
CompileThrows(c) == \E i \in DOMAIN c : c[i] = "{{#if"

\* a renderer that escapes literal text as it escapes values
RenderPieceEscapesText(piece, ctx) ==
    IF piece = "a&b" THEN <<"a&amp;b">>
    ELSE IF piece = "a&amp;b" THEN <<"a&amp;amp;b">>
    ELSE IF piece \in {"{{name}}", "{{none}}"}
    THEN IF VarOf(piece) \in DOMAIN ctx THEN <<ctx[VarOf(piece)]>> ELSE <<>>
    ELSE IF piece = "\\{{name}}" THEN <<"{{name}}">>
    ELSE <<piece>>

\* what template(context) puts out for one piece: a mustache gives the value
\* of its variable or nothing, an escaped mustache gives the mustache as
\* text, literal text is copied
RenderPiece(piece, ctx) ==
    IF piece \in {"{{name}}", "{{none}}"}
    THEN IF VarOf(piece) \in DOMAIN ctx THEN <<ctx[VarOf(piece)]>> ELSE <<>>
    ELSE IF piece = "\\{{name}}" THEN <<"{{name}}">>
    ELSE <<piece>>

\* const renderedContent = Handlebars.compile(content)(context)
RECURSIVE Render(_, _)
Render(c, ctx) ==
    IF c = <<>> THEN <<>> ELSE RenderPiece(Head(c), ctx) \o Render(Tail(c), ctx)

\* a test that takes every rendered file for changed
ContentDiffersAlways(c, r) == TRUE

\* content !== renderedContent
ContentDiffers(c, r) == c # r

\* the file system errors so far
Faults == Cardinality({i \in DOMAIN log : log[i].op # "console.warn" /\ ~log[i].ok})

\* the outcomes of the file system calls of an entry
Outcomes(calls) == IF Faults < MaxFaults THEN {"ok"} \cup calls ELSE {"ok"}

\* the directory renderTemplateFiles is first called on
TargetDir == <<>>

\* the names fs.readdir(dir) returns, as paths
Entries(tr, dir) ==
    {SubSeq(p, 1, Len(dir) + 1) : p \in {q \in tr : IsUnder(q, dir) /\ q # dir}}

\* stats.isDirectory()
isDirectory(tr, e) == \E p \in tr : IsUnder(p, e) /\ p # e

\* the innermost call of renderTemplateFiles and the entry its loop is at
Frame == stack[Len(stack)]

Walking == status = "running" /\ stack # <<>>

AtEntry == Walking /\ Frame # <<>>

Entry == Head(Frame)

\* the loop moves on to the next entry
NextEntry == [stack EXCEPT ![Len(stack)] = Tail(Frame)]

\* an error leaves renderTemplateFiles and every call above it
RenderThrows ==
    /\ status' = "failed"
    /\ thrown' = "renderTemplateFiles"
    /\ UNCHANGED <<context, cliVars, stack, content, rendered>>

\* await super.renderTemplateFiles(targetDir, context): const files = await
\* fs.readdir(dir)
RenderCall ==
    /\ status = "running"
    /\ stack = <<>>
    /\ pass < MaxPasses
    /\ pass' = pass + 1
    /\ \E order \in Enumerations(Entries(tree, TargetDir)) : stack' = <<order>>
    /\ log' = Append(log, Event("renderTemplateFiles", TargetDir, TRUE))
    /\ UNCHANGED <<context, cliVars, content, envState, manifest, template, params, config,
                   rendered, status, pc, ppc, repo, tree, patchFiles, patchIdx,
                   thrown>>

\* a directory entry: fs.stat, then the recursive call and its fs.readdir;
\* neither is inside a try
RenderDirectory ==
    /\ AtEntry
    /\ isDirectory(tree, Entry)
    /\ \E outcome \in Outcomes({"stat", "readdir"}) :
         IF outcome = "ok"
         THEN /\ \E order \in Enumerations(Entries(tree, Entry)) :
                    stack' = Append(NextEntry, order)
              /\ log' = Append(log, Event("readdir", Entry, TRUE))
              /\ UNCHANGED <<content, rendered, status, thrown>>
         ELSE /\ log' = Append(log, Event(outcome, Entry, FALSE))
              /\ RenderThrows
    /\ UNCHANGED <<context, cliVars, pass, envState, manifest, template, params, config, pc,
                   ppc, repo, tree, patchFiles, patchIdx>>

\* the events of the try block on file f when fs.readFile succeeds
RenderFileEvents(f, written, ok) ==
    <<Event("readFile", f, TRUE)>>
        \o (IF written THEN <<Event("writeFile", f, ok)>> ELSE <<>>)
        \o (IF ok THEN <<>> ELSE <<Event("console.warn", f, TRUE)>>)

\* a file entry: fs.stat outside the try; readFile, compile, render and
\* writeFile inside it, any error of theirs ends in console.warn
RenderFile ==
    /\ AtEntry
    /\ ~isDirectory(tree, Entry)
    /\ LET f == Entry
           r == Render(content[f], Context)
       IN  \E outcome \in Outcomes({"stat", "readFile", "writeFile"}) :
             CASE outcome = "stat" ->
                    /\ log' = Append(log, Event("stat", f, FALSE))
                    /\ RenderThrows
               [] outcome = "readFile" ->
                    /\ log' = log \o <<Event("readFile", f, FALSE),
                                       Event("console.warn", f, TRUE)>>
                    /\ stack' = NextEntry
                    /\ UNCHANGED <<content, rendered, status, thrown>>
               [] outcome = "writeFile" ->
                    /\ ~CompileThrows(content[f])
                    /\ ContentDiffers(content[f], r)
                    /\ log' = log \o RenderFileEvents(f, TRUE, FALSE)
                    /\ rendered' = rendered \cup {f}
                    /\ stack' = NextEntry
                    /\ UNCHANGED <<content, status, thrown>>
               [] OTHER ->
                    /\ rendered' = rendered \cup {f}
                    /\ stack' = NextEntry
                    /\ UNCHANGED <<status, thrown>>
                    /\ IF CompileThrows(content[f])
                       THEN /\ log' = log \o RenderFileEvents(f, FALSE, FALSE)
                            /\ UNCHANGED content
                       ELSE IF ContentDiffers(content[f], r)
                       THEN /\ log' = log \o RenderFileEvents(f, TRUE, TRUE)
                            /\ content' = [content EXCEPT ![f] = r]
                       ELSE /\ log' = log \o RenderFileEvents(f, FALSE, TRUE)
                            /\ UNCHANGED content
    /\ UNCHANGED <<context, cliVars, pass, envState, manifest, template, params, config, pc,
                   ppc, repo, tree, patchFiles, patchIdx>>

\* the loop of a call is over: the call returns
RenderReturn ==
    /\ Walking
    /\ Frame = <<>>
    /\ stack' = SubSeq(stack, 1, Len(stack) - 1)
    /\ UNCHANGED <<context, cliVars, content, pass, envState, manifest, template, params,
                   config, rendered, status, pc, ppc, repo, tree, patchFiles,
                   patchIdx, thrown, log>>

\* the directories that are rendered: up to MaxRenderFiles files
RenderTrees == {t \in SUBSET RenderPaths : Cardinality(t) <= MaxRenderFiles}

InitRenderer ==
    /\ template = "python-library"
    /\ params \in ParamsOf(template)
    /\ config = [conditions |-> <<>>, default |-> Undefined]
    /\ status = "running"
    /\ pc = 1
    /\ ppc = "enter"
    /\ repo = Undefined
    /\ tree \in RenderTrees
    /\ content \in [tree -> Contents]
    /\ stack = <<>>
    /\ pass = 0
    /\ patchFiles = <<>>
    /\ patchIdx = 1
    /\ thrown = "none"
    /\ rendered = {}
    /\ log = <<>>
    /\ envFile = <<>>
    /\ envVarsFromFile = <<>>
    /\ envVars = <<>>
    /\ dotEnv = <<>>
    /\ compose = ComposeFile
    /\ selectedServices = SelectedServices
    /\ InInitialize
    /\ manifest = <<>>

NextRenderer ==
    \/ RenderCall
    \/ RenderDirectory
    \/ RenderFile
    \/ RenderReturn

SpecRenderer == InitRenderer /\ [][NextRenderer]_vars

\* the events the step under way adds to the log
NewEvents == SubSeq(log', Len(log) + 1, Len(log'))

\* the step adds an event of operation op on path f, with any outcome
Does(op, f) == \E i \in DOMAIN NewEvents : NewEvents[i].op = op /\ NewEvents[i].arg = f

\* the step adds the event of a successful operation op on path f
Did(op, f) == \E i \in DOMAIN NewEvents : NewEvents[i] = Event(op, f, TRUE)

\* C13: a visited file whose text was read and rendered is written if and
\* only if the rendered text differs from the text read; without a write
\* the file keeps its text, after the write its text is the rendered text,
\* and no other file changes
C13_WriteRule ==
    [][RenderFile =>
          LET f == Entry
              r == Render(content[f], Context)
          IN  /\ (Did("readFile", f) /\ ~CompileThrows(content[f])) =>
                     /\ Does("writeFile", f) <=> (r # content[f])
                     /\ Did("writeFile", f) => content'[f] = r
              /\ ~Does("writeFile", f) => content'[f] = content[f]
              /\ \A g \in tree \ {f} :
                     content'[g] = content[g] /\ ~Does("writeFile", g)
      ]_vars

\* an event of the log
Logged(op, f, ok) == \E i \in DOMAIN log : log[i] = Event(op, f, ok)

\* C13 witness: in one run a file was written with its rendered text, which
\* differs from what it held, and another one, rendered too, was not written
C13_Witness ==
    /\ pass = 1
    /\ \E f, g \in tree :
          /\ Logged("writeFile", f, TRUE)
          /\ content[f] \in {<<"a&b", "val">>, <<"{{name}}">>}
          /\ Logged("readFile", g, TRUE)
          /\ ~CompileThrows(content[g])
          /\ ~Logged("writeFile", g, TRUE) /\ ~Logged("writeFile", g, FALSE)

\* the step under way fails on its entry: a file system call fails or the
\* text of the file does not compile
EntryFails ==
    \/ \E i \in DOMAIN NewEvents : NewEvents[i].op # "console.warn" /\ ~NewEvents[i].ok
    \/ /\ ~isDirectory(tree, Entry)
       /\ Did("readFile", Entry)
       /\ CompileThrows(content[Entry])

\* C14: when the processing of an entry fails (stat, read, compile, render
\* or write) the files keep their text, a warning is logged, and
\* renderTemplateFiles does not abort: it goes on with the entries that
\* are left
C14_RenderFailureIsolated ==
    [][((RenderFile \/ RenderDirectory) /\ EntryFails) =>
          /\ content' = content
          /\ Does("console.warn", Entry)
          /\ status' = "running"
          /\ stack' = NextEntry
      ]_vars

\* C15: renderTemplateFiles visits exactly the files of the finished
\* project: every file of the tree initialize returns with has been
\* visited, and no file of .patches or .git has
C15_RenderCoverage ==
    (status = "done" /\ Has("renderTemplateFiles")) =>
        /\ rendered = tree
        /\ \A f \in rendered : ~IsUnder(f, PatchesDir) /\ ~IsUnder(f, GitDir)

\* the text holds a mustache, escaped or not, or an open block
HasTokens(c) ==
    \E i \in DOMAIN c : c[i] \in {"{{name}}", "{{none}}", "\\{{name}}", "{{#if"}

\* C16: rendering is idempotent: in a second run over the directory a file
\* without any remaining token is rendered to the very text it holds and is
\* not written
C16_RenderIdempotent ==
    [][(RenderFile /\ pass >= 2 /\ Did("readFile", Entry)
            /\ ~HasTokens(content[Entry])) =>
          /\ Render(content[Entry], Context) = content[Entry]
          /\ ~Does("writeFile", Entry)
          /\ content' = content
      ]_vars

\* the number of times file f was read
Reads(f) == Cardinality({i \in DOMAIN log : log[i] = Event("readFile", f, TRUE)})

\* C16 witness: a file that the first run wrote with its rendered text has
\* been read again by the second run, which did not write it
C16_Witness ==
    /\ pass = 2
    /\ \E f \in tree :
          /\ Reads(f) = 2
          /\ content[f] = <<"a&b", "val">>
          /\ Cardinality({i \in DOMAIN log : log[i].op = "writeFile" /\ log[i].arg = f}) = 1

(***************************************************************************)
(* Manifest editor: configureProject of python-api on every requirements   *)
(* file of up to MaxManifestLines lines                                    *)
(***************************************************************************)
\* longest requirements.txt explored
MaxManifestLines == 3

\* the files of up to MaxManifestLines lines
Manifests == UNION {[1..n -> ManifestLines] : n \in 0..MaxManifestLines}

InitManifest ==
    /\ template = "python-api"
    /\ params \in ParamsOf(template)
    /\ config = [conditions |-> <<>>, default |-> DefaultRepo]
    /\ status = "running"
    /\ pc = ConfigureAt
    /\ ppc = "enter"
    /\ repo = DefaultRepo
    /\ tree = FullTree(template)
    /\ patchFiles = <<>>
    /\ patchIdx = 1
    /\ thrown = "none"
    /\ rendered = {}
    /\ log = <<>>
    /\ WalkIdle
    /\ InInitialize
    /\ manifest \in Manifests

SpecManifest == InitManifest /\ [][ConfigureProject]_vars

\* updateRequirements has rewritten the file
Edited == Has("updateRequirements")

\* the lines updateRequirements read
ManifestRead == (CHOOSE e \in {log[i] : i \in DOMAIN log} : e.op = "updateRequirements").arg

\* the dependency names of a feature
FeatureNames(f) ==
    CASE f = "orm" -> {"sqlmodel", "sqlalchemy"}
      [] f = "use_alembic" -> {"alembic"}
      [] f = "includeAliSms" -> {"aliyun-python-sdk-core"}
      [] OTHER -> {"oss2"}

\* the dependency names of the disabled features
DisabledNames == UNION {FeatureNames(f) : f \in {g \in PrunableFeatures : FeatureDisabled(g)}}

\* the line matches a dependency name of a disabled feature
MatchesDisabled(line) == LineIncludes(line) \cap DisabledNames # {}

\* the framework that was not chosen, when one was chosen
NonChosen ==
    CASE params.web_framework_choice = "flask" -> "fastapi"
      [] params.web_framework_choice = "fastapi" -> "flask"
      [] OTHER -> "none"

MatchesNonChosen(line) == NonChosen \in LineIncludes(line)

\* the pinned specifiers of the chosen framework
ChosenPins ==
    IF params.web_framework_choice = "flask"
    THEN <<"flask==2.3.3">>
    ELSE <<"fastapi==0.103.1", "uvicorn==0.23.2">>

\* the concatenation of the sequences of a sequence
RECURSIVE Flatten(_)
Flatten(ss) == IF ss = <<>> THEN <<>> ELSE Head(ss) \o Flatten(Tail(ss))

\* the line is not to be dropped and not to be replaced
PassesThrough(line) == ~MatchesDisabled(line) /\ ~MatchesNonChosen(line)

\* C17: the lines that match no name of a disabled feature and not the
\* framework that was not chosen are in the output, unchanged and in their
\* order; every other line of the input is left out or gives way, at its
\* position, to the pinned specifiers, and the output holds nothing else
C17_ManifestPassThrough ==
    Edited =>
        \E pins \in [DOMAIN ManifestRead -> BOOLEAN] :
            manifest = Flatten([i \in DOMAIN ManifestRead |->
                                  IF PassesThrough(ManifestRead[i])
                                  THEN <<ManifestRead[i]>>
                                  ELSE IF pins[i] THEN ChosenPins ELSE <<>>])

\* C17 witness: a file of three lines whose first and last line pass
\* through while the line between them is dropped
C17_Witness ==
    /\ Edited
    /\ Len(ManifestRead) = 3
    /\ PassesThrough(ManifestRead[1])
    /\ MatchesDisabled(ManifestRead[2])
    /\ PassesThrough(ManifestRead[3])
    /\ ManifestRead[1] # ManifestRead[3]
    /\ manifest = <<ManifestRead[1], ManifestRead[3]>>

\* a framework was chosen
FrameworkChosen == params.web_framework_choice \in {"flask", "fastapi"}

\* C18 as stated: when a framework was chosen every line that matches the
\* other framework gives way, at its position, to the pinned specifiers of
\* the chosen one; a file with a fastapi line, flask chosen and orm false,
\* comes out with a flask==2.3.3 line
C18_NonChosenReplaced ==
    (Edited /\ FrameworkChosen) =>
        /\ \E keep \in [DOMAIN ManifestRead -> BOOLEAN] :
               manifest = Flatten([i \in DOMAIN ManifestRead |->
                                     IF MatchesNonChosen(ManifestRead[i])
                                     THEN ChosenPins
                                     ELSE IF keep[i] THEN <<ManifestRead[i]>> ELSE <<>>])
        /\ (/\ params.web_framework_choice = "flask"
            /\ params.orm = "false"
            /\ \E i \in DOMAIN ManifestRead : "fastapi" \in LineIncludes(ManifestRead[i]))
               => \E j \in DOMAIN manifest : manifest[j] = "flask==2.3.3"

\* the line names a dependency of the ORM while orm is false, or of
\* Alembic while use_alembic is not true: the loop drops it before it looks
\* at the framework
DroppedFirst(line) ==
    \/ FeatureDisabled("orm") /\ LineIncludes(line) \cap FeatureNames("orm") # {}
    \/ FeatureDisabled("use_alembic")
         /\ LineIncludes(line) \cap FeatureNames("use_alembic") # {}

\* C18 amended: when a framework was chosen every line that matches the
\* other framework and is not dropped first as a dependency of the disabled
\* ORM or Alembic gives way, at its position, to the pinned specifiers of
\* the chosen one; a file with a fastapi line that names no such
\* dependency, flask chosen and orm false, comes out with a flask==2.3.3 line
C18_ReplacedUnlessDropped ==
    (Edited /\ FrameworkChosen) =>
        /\ \E keep \in [DOMAIN ManifestRead -> BOOLEAN] :
               manifest = Flatten([i \in DOMAIN ManifestRead |->
                                     IF DroppedFirst(ManifestRead[i])
                                     THEN <<>>
                                     ELSE IF MatchesNonChosen(ManifestRead[i])
                                     THEN ChosenPins
                                     ELSE IF keep[i] THEN <<ManifestRead[i]>> ELSE <<>>])
        /\ (/\ params.web_framework_choice = "flask"
            /\ params.orm = "false"
            /\ \E i \in DOMAIN ManifestRead :
                   /\ "fastapi" \in LineIncludes(ManifestRead[i])
                   /\ ~DroppedFirst(ManifestRead[i]))
               => \E j \in DOMAIN manifest : manifest[j] = "flask==2.3.3"

\* C18 witness: flask chosen and orm false; the fastapi line between two
\* other lines has given way to flask==2.3.3 and the sqlalchemy line is gone
C18_Witness ==
    /\ Edited
    /\ params.web_framework_choice = "flask"
    /\ params.orm = "false"
    /\ ManifestRead = <<"requests==2.31.0", "fastapi==0.95.0", "sqlalchemy==2.0.0">>
    /\ manifest = <<"requests==2.31.0", "flask==2.3.3">>

\* C19: after updateRequirements no line of the file contains a dependency
\* name of a disabled feature: sqlmodel or sqlalchemy when orm is false,
\* alembic when use_alembic is false, aliyun-python-sdk-core when
\* includeAliSms is false, oss2 when includeAliOss is false
C19_NoDisabledDependency ==
    Edited => \A j \in DOMAIN manifest : ~MatchesDisabled(manifest[j])

\* C19 witness: with every feature disabled a file that names sqlmodel,
\* alembic and oss2 has lost its three lines
C19_Witness ==
    /\ Edited
    /\ \A f \in PrunableFeatures : FeatureDisabled(f)
    /\ ManifestRead = <<"sqlmodel==0.0.8", "alembic==1.12.0", "oss2==2.18.0">>
    /\ manifest = <<>>

(***************************************************************************)
(* Environment file: DockerComposeTemplate.readEnvFile                     *)
(***************************************************************************)
\* longest environment file explored
MaxEnvLines == 3

\* a line is the sequence of its characters; K and B stand for the letters,
\* digits and underscores of a name, v, w and c for any other text
EnvLines ==
    {<<>>,
     <<"#", " ", "c">>,
     <<"#", "K", "=", "v">>,
     <<"K", "=">>,
     <<"K", "=", " ">>,
     <<"K", "=", "v">>,
     <<" ", "B", "=", "v", " ">>,
     <<"B", "=", "v", "=", "w">>,
     <<"K", "-", "B", "=", "v">>}

\* what String.trim removes
IsSpace(ch) == ch = " "

RECURSIVE trimStart(_)
trimStart(str) ==
    IF str # <<>> /\ IsSpace(Head(str)) THEN trimStart(Tail(str)) ELSE str

RECURSIVE trimEnd(_)
trimEnd(str) ==
    IF str # <<>> /\ IsSpace(str[Len(str)])
    THEN trimEnd(SubSeq(str, 1, Len(str) - 1))
    ELSE str

\* String.trim
trim(str) == trimEnd(trimStart(str))

\* line.startsWith('#')
startsWith(str, ch) == str # <<>> /\ Head(str) = ch

\* the class [A-Za-z0-9_]
NameChars == {"K", "B"}

\* the length of the longest prefix that [A-Za-z0-9_]+ can take
RECURSIVE NamePrefix(_)
NamePrefix(str) ==
    IF str # <<>> /\ Head(str) \in NameChars THEN 1 + NamePrefix(Tail(str)) ELSE 0

\* line.match(/^([A-Za-z0-9_]+)=(.*)$/) is not null
matches(str) ==
    /\ NamePrefix(str) > 0
    /\ Len(str) > NamePrefix(str)
    /\ str[NamePrefix(str) + 1] = "="

\* matches[1] and matches[2]
MatchName(str) == SubSeq(str, 1, NamePrefix(str))

MatchValue(str) == SubSeq(str, NamePrefix(str) + 2, Len(str))

\* a record that keeps the empty string as its value
ValueOrEmpty(v) == v

\* value || undefined
ValueOrUndefined(v) == IF v = <<>> THEN Undefined ELSE v

\* the loop of readEnvFile from some line on, currentComment being the
\* comment read last and not yet given to a variable
RECURSIVE readEnvLines(_, _)
readEnvLines(lines, currentComment) ==
    IF lines = <<>>
    THEN <<>>
    ELSE LET line == trim(Head(lines))
         IN  IF startsWith(line, "#")
             THEN readEnvLines(Tail(lines), trim(Tail(line)))
             ELSE IF matches(line)
             THEN <<[name |-> MatchName(line),
                     value |-> ValueOrUndefined(MatchValue(line)),
                     comment |-> currentComment]>>
                      \o readEnvLines(Tail(lines), <<>>)
             ELSE readEnvLines(Tail(lines), currentComment)

\* readEnvFile on the lines of content.split('\n')
readEnvFile(lines) == readEnvLines(lines, <<>>)

\* const envVarsFromFile = await this.readEnvFile(envFilePath): fs.readFile
\* may fail, and getParameters then throws
ReadEnvFile ==
    /\ status = "collecting"
    /\ ~Has("readEnvFile")
    /\ \E ok \in BOOLEAN :
         /\ log' = Append(log, Event("readEnvFile", <<".env">>, ok))
         /\ IF ok
            THEN /\ envVarsFromFile' = readEnvFile(envFile)
                 /\ UNCHANGED <<status, thrown>>
            ELSE /\ status' = "failed"
                 /\ thrown' = "readEnvFile"
                 /\ UNCHANGED envVarsFromFile
    /\ UNCHANGED <<context, cliVars, content, stack, pass, envFile, envVars, dotEnv,
                   composeState, manifest, template,
                   params, config, rendered, pc, ppc, repo, tree, patchFiles,
                   patchIdx>>

\* what the user types at an input prompt whose default is ''
Answers == {<<>>, <<"v">>}

\* if (info.value !== undefined)
HasValue(info) == info.value # Undefined

NoValue(info) == ~HasValue(info)

\* the questions: one for each variable without a value, named after it
Questions(envVarInfos) ==
    LET envVarsToAsk == SelectSeq(envVarInfos, NoValue)
    IN  [n \in DOMAIN envVarsToAsk |-> envVarsToAsk[n].name]

\* the names inquirer.prompt returns an answer for
QuestionNames(envVarInfos) ==
    {Questions(envVarInfos)[n] : n \in DOMAIN Questions(envVarInfos)}

\* a prompt stage that hands the list on as it was read
promptForMissingEnvVarsAsksNothing(envVarInfos, answers) == envVarInfos

\* promptForMissingEnvVars: the variables that have a value are pushed in
\* the first loop, the others after the prompt with the answer as value
promptForMissingEnvVars(envVarInfos, answers) ==
    LET envVarsToAsk == SelectSeq(envVarInfos, NoValue)
    IN  SelectSeq(envVarInfos, HasValue)
            \o [n \in DOMAIN envVarsToAsk |->
                    [name |-> envVarsToAsk[n].name,
                     value |-> answers[envVarsToAsk[n].name],
                     comment |-> envVarsToAsk[n].comment]]

\* const envVars = await this.promptForMissingEnvVars(envVarsFromFile), and
\* getParameters returns: inquirer.prompt is called when there is a question
\* and may fail, getParameters then throws; createProject calls initialize
\* with what getParameters returned
PromptForMissingEnvVars ==
    /\ status = "collecting"
    /\ Has("readEnvFile")
    /\ LET questions == Questions(envVarsFromFile)
       IN  \/ /\ status' = "running"
              /\ cpc' = "initialize"
              /\ \E answers \in [QuestionNames(envVarsFromFile) -> Answers] :
                    envVars' = promptForMissingEnvVars(envVarsFromFile, answers)
              /\ log' = IF questions # <<>>
                        THEN Append(log, Event("prompt", questions, TRUE))
                        ELSE log
              /\ UNCHANGED thrown
           \/ /\ questions # <<>>
              /\ status' = "failed"
              /\ thrown' = "prompt"
              /\ log' = Append(log, Event("prompt", questions, FALSE))
              /\ UNCHANGED <<envVars, cpc>>
    /\ UNCHANGED <<exitCode, targetExists, projectName, context, content, stack, pass,
                   envFile, envVarsFromFile, dotEnv, composeState, manifest,
                   template, params, config, rendered, pc, ppc, repo, tree,
                   patchFiles, patchIdx>>

\* the environment files of up to MaxEnvLines lines
EnvFiles == UNION {[1..n -> EnvLines] : n \in 0..MaxEnvLines}

\* the place of generateEnvFile in DockerComposeTemplate.initialize
GenerateAt ==
    CHOOSE i \in DOMAIN DockerComposeInitialize :
        DockerComposeInitialize[i] = "generateEnvFile"

\* getParameters of docker-compose is about to read the environment file
\* of the template; initialize is followed from generateEnvFile on
InitEnv ==
    /\ template = "docker-compose"
    /\ params \in ParamsOf(template)
    /\ config = [conditions |-> <<>>, default |-> Undefined]
    /\ status = "collecting"
    /\ pc = GenerateAt
    /\ ppc = "enter"
    /\ repo = Undefined
    /\ tree = FullTree(template)
    /\ patchFiles = <<>>
    /\ patchIdx = 1
    /\ thrown = "none"
    /\ rendered = {}
    /\ log = <<>>
    /\ content = <<>>
    /\ stack = <<>>
    /\ pass = 0
    /\ envFile \in EnvFiles
    /\ envVarsFromFile = <<>>
    /\ envVars = <<>>
    /\ dotEnv = <<>>
    /\ compose = ComposeFile
    /\ selectedServices = SelectedServices
    /\ cpc = "getParameters"
    /\ exitCode = 0
    /\ targetExists = TRUE
    /\ projectName = ProjectName
    /\ context = <<>>
    /\ manifest = <<>>

NextEnv ==
    \/ ReadEnvFile
    \/ PromptForMissingEnvVars
    \/ GenerateEnvFile

SpecEnv == InitEnv /\ [][NextEnv]_vars

\* readEnvFile has returned
EnvRead == \E i \in DOMAIN log : log[i] = Event("readEnvFile", <<".env">>, TRUE)

\* position of the first "=" of a line, 0 when it has none
RECURSIVE FirstEquals(_)
FirstEquals(str) ==
    IF str = <<>> THEN 0
    ELSE IF Head(str) = "=" THEN 1
    ELSE IF FirstEquals(Tail(str)) = 0 THEN 0
    ELSE 1 + FirstEquals(Tail(str))

\* the line, spaces around it apart, reads KEY=value: a name of one
\* character or more, made of letters, digits and underscores, then "="
IsKeyValue(str) ==
    LET t == trim(str)
    IN  /\ FirstEquals(t) > 1
        /\ \A j \in 1..(FirstEquals(t) - 1) : t[j] \in NameChars

KeyOf(str) == SubSeq(trim(str), 1, FirstEquals(trim(str)) - 1)

TextAfterEquals(str) == SubSeq(trim(str), FirstEquals(trim(str)) + 1, Len(trim(str)))

\* the KEY=value lines of the file, in file order
KeyValueLines == SelectSeq(envFile, IsKeyValue)

\* C20: readEnvFile returns one record for each KEY=value line of the
\* file, in file order, named KEY, whose value is undefined if and only if
\* nothing follows the "="; the lines "# c" and "K=" give the single
\* record of name K, comment c and undefined value
C20_ReadEnvFile ==
    EnvRead =>
        /\ Len(envVarsFromFile) = Len(KeyValueLines)
        /\ \A n \in DOMAIN envVarsFromFile :
               /\ envVarsFromFile[n].name = KeyOf(KeyValueLines[n])
               /\ envVarsFromFile[n].value = Undefined
                      <=> TextAfterEquals(KeyValueLines[n]) = <<>>
        /\ envFile = <<<<"#", " ", "c">>, <<"K", "=">>>>
               => envVarsFromFile = <<[name |-> <<"K">>, comment |-> <<"c">>,
                               value |-> Undefined]>>

\* C20 witness: a file of a comment, a variable without a value and a
\* variable with one has been read into two records
C20_Witness ==
    /\ EnvRead
    /\ envFile = <<<<"#", " ", "c">>, <<"K", "=">>, <<"B", "=", "v", "=", "w">>>>
    /\ Len(envVarsFromFile) = 2
    /\ envVarsFromFile[1].value = Undefined
    /\ envVarsFromFile[2] = [name |-> <<"B">>, comment |-> <<>>, value |-> <<"v", "=", "w">>]

(***************************************************************************)
(* Environment file comments                                               *)
(***************************************************************************)
\* the positions of the KEY=value lines of the file, in file order
RECURSIVE KeyValuePositionsFrom(_)
KeyValuePositionsFrom(i) ==
    IF i > Len(envFile) THEN <<>>
    ELSE IF IsKeyValue(envFile[i]) THEN <<i>> \o KeyValuePositionsFrom(i + 1)
    ELSE KeyValuePositionsFrom(i + 1)

KeyValuePositions == KeyValuePositionsFrom(1)

\* the line, spaces around it apart, begins with "#"
IsCommentLine(str) == trim(str) # <<>> /\ Head(trim(str)) = "#"

\* the text of a comment line
CommentText(str) == trim(Tail(trim(str)))

\* the text of the comment line just before line i, empty when line i is
\* the first line or follows a line that is not a comment
CommentBefore(i) ==
    IF i > 1 /\ IsCommentLine(envFile[i - 1])
    THEN CommentText(envFile[i - 1])
    ELSE <<>>

\* C21: the comment of each record is the text of the comment line that
\* immediately precedes its KEY=value line, and is empty when the line
\* before is not a comment or there is none; no comment line gives its text
\* to more than one record
C21_CommentImmediatelyPrecedes ==
    EnvRead =>
        /\ Len(envVarsFromFile) = Len(KeyValuePositions)
        /\ \A n \in DOMAIN envVarsFromFile :
               envVarsFromFile[n].comment = CommentBefore(KeyValuePositions[n])

(***************************************************************************)
(* Environment values: promptForMissingEnvVars and generateEnvFile         *)
(***************************************************************************)
\* getParameters has returned
ParametersCollected == status \in {"running", "done"}

\* generateEnvFile has written .env
EnvGenerated == \E i \in DOMAIN log : log[i].op = "generateEnvFile"

\* the names the user was prompted for, in the order of the questions
Prompted ==
    IF \E i \in DOMAIN log : log[i].op = "prompt"
    THEN log[CHOOSE i \in DOMAIN log : log[i].op = "prompt"].arg
    ELSE <<>>

\* a KEY=value line of the file with nothing after the "="
IsBlankValue(str) == IsKeyValue(str) /\ TextAfterEquals(str) = <<>>

\* the names of the variables the file leaves blank, in file order
BlankKeys ==
    LET blank == SelectSeq(envFile, IsBlankValue)
    IN  [n \in DOMAIN blank |-> KeyOf(blank[n])]

\* the KEY=value lines of the generated .env
WrittenLines == SelectSeq(dotEnv, IsKeyValue)

\* C22: the variables prompted for during getParameters are exactly those
\* the environment file leaves blank, so a variable that has a value is
\* never prompted for; when generateEnvFile has run, every EnvVarInfo has a
\* defined value and every variable the file declares is a NAME=value line
\* of .env, with the value of the file when the file gives one
C22_ValuesFilledBeforeWrite ==
    /\ ParametersCollected => Prompted = BlankKeys
    /\ ~ParametersCollected => ~EnvGenerated
    /\ EnvGenerated =>
           /\ \A n \in DOMAIN envVars : envVars[n].value # Undefined
           /\ Len(WrittenLines) = Len(KeyValueLines)
           /\ \A k \in DOMAIN KeyValueLines :
                  \E w \in DOMAIN WrittenLines :
                      /\ KeyOf(WrittenLines[w]) = KeyOf(KeyValueLines[k])
                      /\ ~IsBlankValue(KeyValueLines[k]) =>
                             TextAfterEquals(WrittenLines[w])
                                 = TextAfterEquals(KeyValueLines[k])

\* C22 witness: a file that declares K without a value and B with one; K
\* alone was prompted for and both are lines of the generated .env
C22_Witness ==
    /\ EnvGenerated
    /\ envFile = <<<<"K", "=">>, <<"B", "=", "v", "=", "w">>>>
    /\ Prompted = <<<<"K">>>>
    /\ \E i \in DOMAIN dotEnv : dotEnv[i] = <<"K", "=", "v">>
    /\ \E i \in DOMAIN dotEnv : dotEnv[i] = <<"B", "=", "v", "=", "w">>

\* the names of a list of EnvVarInfo, in order
Names(infos) == [n \in DOMAIN infos |-> infos[n].name]

\* C29: the names of the list promptForMissingEnvVars returns are the
\* names of the list it was given, one entry per variable, in the same
\* order, whichever variables were prompted for
C29_PromptPreservesDeclaration ==
    ParametersCollected => Names(envVars) = Names(envVarsFromFile)

\* C28: when every value of the list is defined, reading with readEnvFile
\* the file generateEnvFile wrote gives the list back: the same names in
\* the same order, the same values and the same comment for each variable
C28_EnvFileRoundTrip ==
    (EnvGenerated /\ \A n \in DOMAIN envVars : envVars[n].value # Undefined)
        => readEnvFile(dotEnv) = envVars

(***************************************************************************)
(* Command: program.action and createProject                               *)
(***************************************************************************)
\* what the target directory holds when it exists before the command runs
ExistingTree == {<<"old.txt">>}

\* program.action up to the call of createProject: the project name is
\* asked for when the argument is missing
ProgramAction ==
    /\ cpc = "action"
    /\ status = "collecting"
    /\ \E given \in BOOLEAN :
         log' = IF given
                THEN log
                ELSE Append(log, Event("promptProjectName", <<>>, TRUE))
    /\ cpc' = "createProject"
    /\ UNCHANGED <<exitCode, targetExists, projectName, context, walkVars, manifest, template, params,
                   config, status, pc, ppc, repo, tree, patchFiles, patchIdx,
                   thrown, rendered>>

\* process.exit(code): the process ends there
processExit(code) ==
    /\ exitCode' = code
    /\ cpc' = "exited"

\* a command that asks and goes on to empty the directory whatever the answer
ConfirmOverwriteIgnoresAnswer ==
    /\ cpc = "createProject"
    /\ status = "collecting"
    /\ targetExists
    /\ \E overwrite \in BOOLEAN :
         log' = Append(log, Event("overwrite", <<>>, overwrite))
    /\ cpc' = "emptyDir"
    /\ UNCHANGED <<exitCode, targetExists, projectName, context, walkVars, manifest, template, params,
                   config, status, pc, ppc, repo, tree, patchFiles, patchIdx,
                   thrown, rendered>>

\* the directory exists: the user is asked whether to overwrite it, and
\* process.exit(0) follows a refusal
ConfirmOverwrite ==
    /\ cpc = "createProject"
    /\ status = "collecting"
    /\ targetExists
    /\ \E overwrite \in BOOLEAN :
         /\ log' = Append(log, Event("overwrite", <<>>, overwrite))
         /\ IF ~overwrite
            THEN processExit(0)
            ELSE /\ cpc' = "emptyDir"
                 /\ UNCHANGED exitCode
    /\ UNCHANGED <<targetExists, projectName, context, walkVars, manifest, template, params, config,
                   status, pc, ppc, repo, tree, patchFiles, patchIdx, thrown,
                   rendered>>

\* await fs.emptyDir(targetDir)
EmptyDir ==
    /\ cpc = "emptyDir"
    /\ status = "collecting"
    /\ \E ok \in BOOLEAN :
         /\ log' = Append(log, Event("emptyDir", <<>>, ok))
         /\ IF ok
            THEN /\ tree' = {}
                 /\ cpc' = "selectTemplate"
                 /\ UNCHANGED <<status, thrown>>
            ELSE /\ status' = "failed"
                 /\ thrown' = "emptyDir"
                 /\ UNCHANGED <<tree, cpc>>
    /\ UNCHANGED <<exitCode, targetExists, projectName, context, walkVars, manifest, template, params,
                   config, pc, ppc, repo, patchFiles, patchIdx, rendered>>

\* the directory does not exist: await fs.ensureDir(targetDir)
EnsureDir ==
    /\ cpc = "createProject"
    /\ status = "collecting"
    /\ ~targetExists
    /\ \E ok \in BOOLEAN :
         /\ log' = Append(log, Event("ensureDir", <<>>, ok))
         /\ IF ok
            THEN /\ targetExists' = TRUE
                 /\ cpc' = "selectTemplate"
                 /\ UNCHANGED <<status, thrown>>
            ELSE /\ status' = "failed"
                 /\ thrown' = "ensureDir"
                 /\ UNCHANGED <<targetExists, cpc>>
    /\ UNCHANGED <<exitCode, projectName, context, walkVars, manifest, template, params, config, pc,
                   ppc, repo, tree, patchFiles, patchIdx, rendered>>

\* the user picks a template of the list; the id picked is one of the
\* list, so templates.find finds it
SelectTemplate ==
    /\ cpc = "selectTemplate"
    /\ status = "collecting"
    /\ log' = Append(log, Event("selectTemplate", template, TRUE))
    /\ cpc' = "getParameters"
    /\ UNCHANGED <<exitCode, targetExists, projectName, context, walkVars, manifest, template, params,
                   config, status, pc, ppc, repo, tree, patchFiles, patchIdx,
                   thrown, rendered>>

\* const templateParams = await selectedTemplate.getParameters(), which may
\* throw, and the call of initialize with what it returned
GetParameters ==
    /\ cpc = "getParameters"
    /\ status = "collecting"
    /\ \E ok \in BOOLEAN :
         /\ log' = Append(log, Event("getParameters", template, ok))
         /\ IF ok
            THEN /\ status' = "running"
                 /\ cpc' = "initialize"
                 /\ UNCHANGED thrown
            ELSE /\ status' = "failed"
                 /\ thrown' = "getParameters"
                 /\ UNCHANGED cpc
    /\ UNCHANGED <<exitCode, targetExists, projectName, context, walkVars, manifest, template, params,
                   config, pc, ppc, repo, tree, patchFiles, patchIdx, rendered>>

\* initialize has returned: git init, git add and git commit in the
\* project; a failure is warned about
GitInit ==
    /\ cpc = "initialize"
    /\ status = "done"
    /\ \E ok \in BOOLEAN :
         /\ log' = Append(log, Event("gitInit", <<>>, ok))
         /\ tree' = IF ok THEN tree \cup {GitDir} ELSE tree
    /\ cpc' = "created"
    /\ UNCHANGED <<exitCode, targetExists, projectName, context, walkVars, manifest, template, params,
                   config, status, pc, ppc, repo, patchFiles, patchIdx, thrown,
                   rendered>>

\* createProject has returned: the handler reports the success and the
\* process ends
ExitSuccess ==
    /\ cpc = "created"
    /\ cpc' = "exited"
    /\ log' = Append(log, Event("created", <<>>, TRUE))
    /\ UNCHANGED <<exitCode, targetExists, projectName, context, walkVars, manifest, template, params,
                   config, status, pc, ppc, repo, tree, patchFiles, patchIdx,
                   thrown, rendered>>

\* the catch of the handler: the error is reported and process.exit(1)
ExitFailure ==
    /\ cpc # "exited"
    /\ status = "failed"
    /\ log' = Append(log, Event("console.error", thrown, TRUE))
    /\ processExit(1)
    /\ UNCHANGED <<targetExists, projectName, context, walkVars, manifest, template, params, config,
                   status, pc, ppc, repo, tree, patchFiles, patchIdx, thrown,
                   rendered>>

\* the command is started, in a directory where the project directory
\* exists or not
InitCli ==
    /\ template \in Templates
    /\ params \in ParamsOf(template)
    /\ config \in PipelineConfigs(template)
    /\ status = "collecting"
    /\ pc = 1
    /\ ppc = "enter"
    /\ repo = Undefined
    /\ targetExists \in BOOLEAN
    /\ tree = IF targetExists THEN ExistingTree ELSE {}
    /\ patchFiles = <<>>
    /\ patchIdx = 1
    /\ thrown = "none"
    /\ rendered = {}
    /\ log = <<>>
    /\ WalkIdle
    /\ manifest = RequirementsTxt
    /\ cpc = "action"
    /\ exitCode = 0
    /\ projectName = ProjectName
    /\ context = <<>>

NextCli ==
    \/ ProgramAction
    \/ ConfirmOverwrite
    \/ EmptyDir
    \/ EnsureDir
    \/ SelectTemplate
    \/ GetParameters
    \/ Next
    \/ GitInit
    \/ ExitSuccess
    \/ ExitFailure

SpecCli == InitCli /\ [][NextCli]_vars

(***************************************************************************)
(* Command properties                                                      *)
(***************************************************************************)
\* the user was asked whether to overwrite the directory and refused
Declined == \E i \in DOMAIN log : log[i] = Event("overwrite", <<>>, FALSE)

\* the process has ended
Exited == cpc = "exited"

\* what the command does before it asks whether to overwrite the directory
BeforeOverwrite == {"promptProjectName", "overwrite"}

\* C23: when the directory exists and the user declines to overwrite it,
\* the process has ended with exit code 0 and nothing was done: the
\* directory holds what it held, no template was selected, no parameters
\* were collected and initialize did not run; the directory is emptied only
\* after the user confirmed
C23_DeclinedOverwrite ==
    /\ Declined =>
           /\ Exited
           /\ exitCode = 0
           /\ targetExists
           /\ tree = ExistingTree
           /\ status = "collecting"
           /\ \A i \in DOMAIN log : log[i].op \in BeforeOverwrite
    /\ \A i \in DOMAIN log :
           log[i].op = "emptyDir" =>
               \E j \in 1..(i - 1) : log[j] = Event("overwrite", <<>>, TRUE)

\* C23 witness: the directory existed, the user declined and the process
\* has ended
C23_Witness ==
    /\ Declined
    /\ Exited
    /\ tree = ExistingTree

\* createProject returned and the handler reported the success
Succeeded == \E i \in DOMAIN log : log[i].op = "created"

\* an error of the fs.stat of one entry left renderTemplateFiles
RenderEntryFailed ==
    \E i \in DOMAIN log : log[i] = Event("renderTemplateFiles", <<"stat">>, FALSE)

\* C24: an error thrown by getParameters or initialize (a fetch failure
\* among them) makes the process end with exit code 1; the process ends
\* with exit code 0 only on success or on a declined overwrite; the exit
\* code is 1 only when a fatal error left createProject, and a recoverable
\* error, such as the failure of one file in the renderer, does not make it 1
C24_FatalErrorsExitOne ==
    Exited =>
        /\ status = "failed" => exitCode = 1
        /\ exitCode = 0 => (Succeeded \/ Declined)
        /\ exitCode = 1 => (status = "failed" /\ ~RenderEntryFailed)

(***************************************************************************)
(* Patch attempts                                                          *)
(***************************************************************************)
\* the names of the patch files git apply has succeeded on
Applied ==
    {n \in PatchDirNames(template) :
        \E i \in DOMAIN log : log[i] = Event("gitApply", PatchPath(n), TRUE)}

\* C25: no patch file is the object of two application attempts in one run
\* of initialize: handlebars.patch, applied before the enumeration, is not
\* attempted again by the loop over the directory, no other patch is
\* attempted twice, and what an applied patch added to the tree stays
C25_AtMostOneAttempt ==
    /\ \A i, j \in DOMAIN log :
           (IsApply(log[i]) /\ IsApply(log[j]) /\ log[i].arg = log[j].arg) => i = j
    /\ \A n \in Applied : PatchOutput(n) \in tree

\* C25 witness: handlebars.patch was attempted, the enumeration listed it
\* again together with a.patch, and the loop has passed over both
C25_Witness ==
    /\ ppc = "loop"
    /\ patchIdx > Len(patchFiles)
    /\ \E i, j \in DOMAIN patchFiles :
           patchFiles[i] = "handlebars.patch" /\ patchFiles[j] = "a.patch"
    /\ Attempted("handlebars.patch")
    /\ Attempted("a.patch")

(***************************************************************************)
(* Checkpoint failure in applyPatches                                      *)
(***************************************************************************)
\* the checkpoint logged at position i failed: git init, git add or git
\* commit threw
CheckpointFailedAt(i) == log[i].op = "checkpoint" /\ ~log[i].ok

\* C27: when .patches exists and the checkpoint fails, no patch
\* application is attempted, no error leaves applyPatches, initialize is at
\* the statement after applyPatches or further, is never stuck there, and a
\* run that returns has run the stages that follow, the renderer last
C27_CheckpointFailure ==
    \A i \in DOMAIN log :
        CheckpointFailedAt(i) =>
            /\ \A j \in DOMAIN log : ~IsApply(log[j])
            /\ thrown # "applyPatches"
            /\ pc > PatchesAt
            /\ (status = "running" => ENABLED Next)
            /\ (status = "done" /\ PatchesAt < Len(InitializeSteps(template))) =>
                   \E j \in (i + 1)..Len(log) :
                       log[j] = Event("renderTemplateFiles", <<>>, TRUE)

\* C27 witness: docker-compose, whose .patches holds a.patch; the
\* checkpoint failed, .env was generated, the files were rendered and
\* initialize returned
C27_Witness ==
    /\ template = "docker-compose"
    /\ status = "done"
    /\ \E i \in DOMAIN log : CheckpointFailedAt(i)
    /\ PatchPath("a.patch") \in tree
    /\ Has("generateEnvFile")
    /\ Has("renderTemplateFiles")

(***************************************************************************)
(* Render context                                                          *)
(***************************************************************************)
\* longest project name explored
MaxNameLen == 3

\* the project names of one to MaxNameLen characters: an upper-case letter,
\* a lower-case letter and the dash
ProjectNames == UNION {[1..n -> {"A", "b", "-"}] : n \in 1..MaxNameLen}

\* the place of renderTemplateFiles in initialize
RenderAt ==
    CHOOSE i \in DOMAIN InitializeSteps(template) :
        InitializeSteps(template)[i] = "renderTemplateFiles"

\* initialize of any template, with any parameters and project name, is
\* about to call renderTemplateFiles
InitContext ==
    /\ template \in Templates
    /\ params \in ParamsOf(template)
    /\ config = [conditions |-> <<>>, default |-> DefaultRepo]
    /\ status = "running"
    /\ pc = RenderAt
    /\ ppc = "enter"
    /\ repo = DefaultRepo
    /\ tree = FullTree(template)
    /\ patchFiles = <<>>
    /\ patchIdx = 1
    /\ thrown = "none"
    /\ rendered = {}
    /\ log = <<>>
    /\ WalkIdle
    /\ manifest = <<>>
    /\ cpc = "initialize"
    /\ exitCode = 0
    /\ targetExists = TRUE
    /\ projectName \in ProjectNames
    /\ context = <<>>

SpecContext == InitContext /\ [][RenderTemplateFiles]_vars

\* renderTemplateFiles has been called
RenderCalled == Has("renderTemplateFiles")

\* a name with every "-" replaced by "_" and every letter in lower case
SnakeCase(name) ==
    [i \in DOMAIN name |->
        CASE name[i] = "-" -> "_"
          [] name[i] = "A" -> "a"
          [] name[i] = "B" -> "b"
          [] OTHER -> name[i]]

\* the fields derived from the project name and the clock
UniversalFields == {"projectNameSnakeCase", "currentYear"}

\* C26 as stated: whatever the template, the context passed to
\* renderTemplateFiles holds projectName, every key of the collected
\* parameters, the derived booleans of the template, projectNameSnakeCase
\* (projectName with "-" replaced by "_", in lower case) and currentYear
C26_UniversalContext ==
    RenderCalled =>
        /\ {"projectName"} \cup ParamKeys(template) \cup DerivedBooleans(template)
               \cup UniversalFields \subseteq DOMAIN context
        /\ context["projectName"] = projectName
        /\ context["projectNameSnakeCase"] = SnakeCase(projectName)

\* C26: the context holds projectName in every template; python-web,
\* python-api and refine-admin pass every key of their parameters and their
\* derived booleans, and neither projectNameSnakeCase nor currentYear;
\* python-library, fastapi and docker-compose pass projectNameSnakeCase
\* (projectName with "-" replaced by "_", in lower case) and currentYear;
\* python-library and fastapi pass every key of their parameters,
\* docker-compose passes none of its own
C26_ContextPerTemplate ==
    RenderCalled =>
        /\ "projectName" \in DOMAIN context
        /\ context["projectName"] = projectName
        /\ template \in FlagPatchTemplates =>
               /\ ParamKeys(template) \cup DerivedBooleans(template)
                      \subseteq DOMAIN context
               /\ UniversalFields \cap DOMAIN context = {}
               /\ template # "refine-admin" =>
                      /\ context["isFlask"] => params.web_framework_choice = "flask"
                      /\ context["isFastApi"] => params.web_framework_choice = "fastapi"
                      /\ context["hasAliSms"] = Flag("includeAliSms")
                      /\ context["hasAliOss"] = Flag("includeAliOss")
               /\ template = "refine-admin" =>
                      /\ context["hasMultiEnv"] = Flag("multiEnv")
                      /\ context["hasUnocss"] = Flag("includeUnocss")
        /\ template \notin FlagPatchTemplates =>
               /\ UniversalFields \subseteq DOMAIN context
               /\ context["projectNameSnakeCase"] = SnakeCase(projectName)
               /\ DerivedBooleans(template) = {}
        /\ template \in {"python-library", "fastapi"} =>
               ParamKeys(template) \subseteq DOMAIN context
        /\ template = "docker-compose" =>
               ParamKeys(template) \cap DOMAIN context = {}

\* C26 witness: docker-compose has rendered the project A-b with a context
\* of projectName, projectNameSnakeCase a_b and currentYear
C26_Witness ==
    /\ RenderCalled
    /\ template = "docker-compose"
    /\ projectName = <<"A", "-", "b">>
    /\ DOMAIN context = {"projectName", "projectNameSnakeCase", "currentYear"}
    /\ context["projectNameSnakeCase"] = <<"a", "_", "b">>

(***************************************************************************)
(* Service pruning                                                         *)
(***************************************************************************)
\* the services mappings of up to MaxServices services with distinct names
ServiceMappings ==
    UNION {{es \in [1..n -> [name : ServiceNames, node : Nodes]] :
               \A i, j \in 1..n : i # j => es[i].name # es[j].name} :
           n \in 0..MaxServices}

\* the compose files: an optional key before services, services absent, a
\* plain value or a mapping, and an optional key after it
ComposeFiles ==
    {before \o services \o after :
        before \in {<<>>} \cup {<<TopScalar("x-a", n)>> : n \in Nodes},
        services \in {<<>>, <<TopScalar("services", <<"plain", "A">>)>>}
                         \cup {<<TopMapping("services", es)>> : es \in ServiceMappings},
        after \in {<<>>} \cup {<<TopScalar("volumes", n)>> : n \in Nodes}}

\* the place of processDockerComposeFile in initialize
ComposeAt ==
    CHOOSE i \in DOMAIN InitializeSteps("docker-compose") :
        InitializeSteps("docker-compose")[i] = "processDockerComposeFile"

\* initialize of docker-compose is about to call processDockerComposeFile,
\* on any compose file or none and with any selection
InitCompose ==
    /\ template = "docker-compose"
    /\ params \in ParamsOf(template)
    /\ config = [conditions |-> <<>>, default |-> DefaultRepo]
    /\ status = "running"
    /\ pc = ComposeAt
    /\ ppc = "enter"
    /\ repo = DefaultRepo
    /\ tree \in {FullTree(template), FullTree(template) \ {<<"docker-compose.yml">>}}
    /\ patchFiles = <<>>
    /\ patchIdx = 1
    /\ thrown = "none"
    /\ rendered = {}
    /\ log = <<>>
    /\ content = <<>>
    /\ stack = <<>>
    /\ pass = 0
    /\ envFile = <<>>
    /\ envVarsFromFile = <<>>
    /\ envVars = <<>>
    /\ dotEnv = <<>>
    /\ compose \in ComposeFiles
    /\ selectedServices \in SUBSET ServiceNames
    /\ InInitialize
    /\ manifest = <<>>

SpecCompose == InitCompose /\ [][ProcessDockerComposeFile]_vars

\* the services of an object, as the set of its names
ServiceNamesOf(composeConfig) ==
    {allServiceNames(composeConfig)[j] : j \in DOMAIN allServiceNames(composeConfig)}

\* the definition of service name in an object
DefinitionOf(composeConfig, name) ==
    LET i == CHOOSE i \in DOMAIN composeConfig : composeConfig[i].key = "services"
        j == CHOOSE j \in DOMAIN composeConfig[i].entries :
                 composeConfig[i].entries[j].name = name
    IN  composeConfig[i].entries[j].value

\* the top-level keys of an object other than services, with their values
OtherKeys(composeConfig) ==
    {<<composeConfig[i].key, composeConfig[i].value>> :
        i \in {k \in DOMAIN composeConfig : composeConfig[k].key # "services"}}

\* the step is a processDockerComposeFile that completes on a file with a
\* services mapping
Prunes ==
    /\ Did("processDockerComposeFile", <<"docker-compose.yml">>)
    /\ Loads(compose)
    /\ HasServices(yamlLoad(compose))

\* C30: after processDockerComposeFile completes on a compose file with a
\* services mapping, the service names of the file are exactly the original
\* names that selectedServices includes, every kept service has the
\* definition it had, every other top-level key has the value it had, and a
\* selected name that the original file does not have is not in the file
C30_ServicePruning ==
    [][Prunes =>
        LET original == yamlLoad(compose)
            written == yamlLoad(compose')
        IN  /\ Loads(compose')
            /\ HasServices(written)
            /\ ServiceNamesOf(written) = ServiceNamesOf(original) \cap selectedServices
            /\ \A name \in ServiceNamesOf(written) :
                   DefinitionOf(written, name) = DefinitionOf(original, name)
            /\ OtherKeys(written) = OtherKeys(original)
            /\ \A name \in selectedServices \ ServiceNamesOf(original) :
                   name \notin ServiceNamesOf(written)]_vars

\* C30 witness: with db and cache selected, web has been deleted from a
\* file that had no cache; the file holds db alone, with the definition
\* its alias stood for, and its other key
C30_Witness ==
    /\ \E i \in DOMAIN log : log[i] = Event("deleteService", <<"web">>, TRUE)
    /\ \E i \in DOMAIN log :
           log[i] = Event("processDockerComposeFile", <<"docker-compose.yml">>, TRUE)
    /\ selectedServices = {"db", "cache"}
    /\ compose = <<TopMapping("services", <<[name |-> "db", node |-> <<"plain", "A">>]>>),
                   TopScalar("volumes", <<"plain", "B">>)>>

====
